---- MODULE Spec2Model ----
(***************************************************************************)
(* Model of the stack-safe trampolines of hurryabit/stack-safe-rs:         *)
(* recurse, recurse_tco and recurse_mut (src/src/lib.rs), driven with the  *)
(* generators of the repository's tests, binaries and benches, and of      *)
(* tarjan (src/src/tarjan.rs) with the driver recurse_st it calls.         *)
(*                                                                         *)
(* A generator (Rust `Generator`) is a record                              *)
(*     [id, arg, st, loc]                                                  *)
(* arg: the argument captured by the closure, st: the suspend point the    *)
(* generator is parked at ("Unresumed", "Suspend0", ..., "Returned"),      *)
(* loc: the locals alive across that suspend point.  id is a ghost field:  *)
(* the number of the f(arg) call that built the generator (Rust values     *)
(* have an identity of their own, records do not).                         *)
(*                                                                         *)
(* One step of a driver is one iteration of its `loop`.                    *)
(***************************************************************************)
EXTENDS Integers, Sequences, FiniteSets, TLC

VARIABLES
    driver,     \* which driver runs: "recurse", "recurse_tco", "recurse_mut",
                \* or "recurse_st" called by tarjan
    prog,       \* which generator constructor f the driver was given
    graph,      \* the &Graph captured by the dfs generators (<<>> otherwise)
    arg0,       \* the argument of the drive
    stack,      \* lib.rs `stack`: Vec of paused generators, top is last
    current,    \* lib.rs `current` / `gen`: the live generator
    res,        \* lib.rs `res`: the next resume input
    mut_arg,    \* lib.rs `mut_arg`: the auxiliary state (recurse_mut); tarjan.rs
                \* `s`, which recurse_st threads through its drive
    for_id,     \* tarjan.rs 117: the next `id` of `for id in 0..n`
    pc,         \* "loop", "done" (the closure returned), "panicked"; in tarjan
                \* also "for" (at the head of the for loop) and "returned"
    ret,        \* <<the value returned by the drive>> once pc = "done", <<>> before
    calls,      \* ghost: the arguments f was called with, in order
    log,        \* ghost: the pushes and pops done so far, in order
    aux_log,    \* ghost: the auxiliary state every resume was given and gave back
    max_depth,  \* ghost: the largest length the stack has had
    size,       \* lib.rs 124 `size`: the stack of the thread with_stack_size
                \* spawned, counted in call frames; 0: no thread was spawned,
                \* the drive is called directly
    native,     \* ghost: the largest number of call frames the native stack of
                \* the thread has held
    joined,     \* <<what with_stack_size returned>>, <<>> before it returns
    other       \* the locals of a second call of the closure recurse returned,
                \* made with the same argument (driver "recurse_twice")

vars ==
    <<driver, prog, graph, arg0, stack, current, res, mut_arg, for_id, pc, ret,
      calls, log, aux_log, max_depth, size, native, joined, other>>

----------------------------------------------------------------------------
(* Bounds of the model. *)

MaxN == 5

MaxBinN == 4

MaxAckSum == 3

MaxDepth == 6

MaxGraph == 4

MaxListLen == 5

MaxNodes == 2

MaxResumes == 5

MaxStack == 6

MaxExpr == 2
MaxTree == 3

None == "none"

Last(s) == s[Len(s)]

Front(s) == SubSeq(s, 1, Len(s) - 1)

----------------------------------------------------------------------------
(* Generators. *)

\* GeneratorState::Yielded(val), the generator now parked at suspend point st.
Yielded(val, gen, st, loc) ==
    [tag |-> "Yielded", val |-> val, gen |-> [gen EXCEPT !.st = st, !.loc = loc]]

\* GeneratorState::Complete(val), the generator now in its Returned state.
Complete(val, gen) ==
    [tag |-> "Complete", val |-> val, gen |-> [gen EXCEPT !.st = "Returned"]]

\* A compiler-made generator panics when resumed after it returned.
Panicked(gen) ==
    [tag |-> "Panicked", val |-> None, gen |-> gen]

\* f(arg): a fresh generator, not yet resumed.
NewGen(arg, id) ==
    [id |-> id, arg |-> arg, st |-> "Unresumed", loc |-> 0]

\* No generator: the value of `current` while no drive has been entered.
NoGen ==
    [id |-> 0, arg |-> 0, st |-> "None", loc |-> 0]

\* tests/triangular.rs stack_safe: if n == 0 { 0 } else { n + yield (n - 1) }
ResumeTriangular(gen, r) ==
    LET n == gen.arg IN
    CASE gen.st = "Unresumed" ->
            IF n = 0 THEN Complete(0, gen)
                     ELSE Yielded(n - 1, gen, "Suspend0", 0)
      [] gen.st = "Suspend0" -> Complete(n + r, gen)
      [] OTHER -> Panicked(gen)

\* Faulty variant, to test the properties against: the second sub-call is the first one again
ResumeBinomialSameSibling(gen, r) ==
    LET n == gen.arg[1]
        k == gen.arg[2]
    IN
    CASE gen.st = "Unresumed" ->
            IF k = 0 \/ k = n THEN Complete(1, gen)
                              ELSE Yielded(<<n - 1, k - 1>>, gen, "Suspend0", 0)
      [] gen.st = "Suspend0" -> Yielded(<<n - 1, k - 1>>, gen, "Suspend1", r)
      [] gen.st = "Suspend1" -> Complete(gen.loc + r, gen)
      [] OTHER -> Panicked(gen)

\* tests/binomial.rs: (yield (n - 1, k - 1)) + (yield (n - 1, k))
ResumeBinomial(gen, r) ==
    LET n == gen.arg[1]
        k == gen.arg[2]
    IN
    CASE gen.st = "Unresumed" ->
            IF k = 0 \/ k = n THEN Complete(1, gen)
                              ELSE Yielded(<<n - 1, k - 1>>, gen, "Suspend0", 0)
      [] gen.st = "Suspend0" -> Yielded(<<n - 1, k>>, gen, "Suspend1", r)
      [] gen.st = "Suspend1" -> Complete(gen.loc + r, gen)
      [] OTHER -> Panicked(gen)

\* Faulty variant, to test the properties against: the outer call does not take the result k of
\* the inner call for its argument
ResumeAckermannDropsK(gen, r) ==
    LET m == gen.arg[1]
        n == gen.arg[2]
    IN
    CASE gen.st = "Unresumed" ->
            IF m = 0 THEN Complete(n + 1, gen)
            ELSE IF n = 0 THEN Yielded(<<m - 1, 1>>, gen, "Suspend0", 0)
            ELSE Yielded(<<m, n - 1>>, gen, "Suspend1", 0)
      [] gen.st = "Suspend0" -> Complete(r, gen)
      [] gen.st = "Suspend1" -> Yielded(<<m - 1, n>>, gen, "Suspend2", 0)
      [] gen.st = "Suspend2" -> Complete(r, gen)
      [] OTHER -> Panicked(gen)

\* tests/list.rs From<Range<T>>: List::from(0..n).  A List is the sequence of
\* its heads, Nil the empty sequence, the tail of a Cons the Tail.
ListFrom(n) == [i \in 1..n |-> i - 1]

\* Faulty variant, to test the properties against: a Cons does not count itself
ResumeListLenNoCount(gen, r) ==
    LET list == gen.arg IN
    CASE gen.st = "Unresumed" ->
            IF list = <<>> THEN Complete(0, gen)
                           ELSE Yielded(Tail(list), gen, "Suspend0", 0)
      [] gen.st = "Suspend0" -> Complete(r, gen)
      [] OTHER -> Panicked(gen)

\* tests/list.rs len_stack_safe (and benches/list.rs len_stack_safe):
\*     Nil => 0, Cons { tail, .. } => { let tail_len = yield tail.as_ref(); 1 + tail_len }
ResumeListLen(gen, r) ==
    LET list == gen.arg IN
    CASE gen.st = "Unresumed" ->
            IF list = <<>> THEN Complete(0, gen)
                           ELSE Yielded(Tail(list), gen, "Suspend0", 0)
      [] gen.st = "Suspend0" -> Complete(1 + r, gen)
      [] OTHER -> Panicked(gen)

\* bin/ackermann.rs r#yield (and tests/ackermann.rs stack_safe)
ResumeAckermann(gen, r) ==
    LET m == gen.arg[1]
        n == gen.arg[2]
    IN
    CASE gen.st = "Unresumed" ->
            IF m = 0 THEN Complete(n + 1, gen)
            ELSE IF n = 0 THEN Yielded(<<m - 1, 1>>, gen, "Suspend0", 0)
            ELSE Yielded(<<m, n - 1>>, gen, "Suspend1", 0)
      [] gen.st = "Suspend0" -> Complete(r, gen)
      [] gen.st = "Suspend1" -> Yielded(<<m - 1, r>>, gen, "Suspend2", 0)
      [] gen.st = "Suspend2" -> Complete(r, gen)
      [] OTHER -> Panicked(gen)

\* lib.rs Call::normal
CallNormal(arg) ==
    [arg |-> arg, is_tail |-> FALSE]

\* lib.rs Call::tail
CallTail(arg) ==
    [arg |-> arg, is_tail |-> TRUE]

\* Faulty variant, to test the properties against: the inner call A(m, n - 1), whose result the
\* generator still needs, carries a tail marker
ResumeAckermannTcoInnerTail(gen, r) ==
    LET m == gen.arg[1]
        n == gen.arg[2]
    IN
    CASE gen.st = "Unresumed" ->
            IF m = 0 THEN Complete(n + 1, gen)
            ELSE IF n = 0 THEN Yielded(CallTail(<<m - 1, 1>>), gen, "Suspend0", 0)
            ELSE Yielded(CallTail(<<m, n - 1>>), gen, "Suspend1", 0)
      [] gen.st = "Suspend0" -> Complete(r, gen)
      [] gen.st = "Suspend1" -> Yielded(CallTail(<<m - 1, r>>), gen, "Suspend2", 0)
      [] gen.st = "Suspend2" -> Complete(r, gen)
      [] OTHER -> Panicked(gen)

\* bin/ackermann.rs yield_tco
ResumeAckermannTco(gen, r) ==
    LET m == gen.arg[1]
        n == gen.arg[2]
    IN
    CASE gen.st = "Unresumed" ->
            IF m = 0 THEN Complete(n + 1, gen)
            ELSE IF n = 0 THEN Yielded(CallTail(<<m - 1, 1>>), gen, "Suspend0", 0)
            ELSE Yielded(CallNormal(<<m, n - 1>>), gen, "Suspend1", 0)
      [] gen.st = "Suspend0" -> Complete(r, gen)
      [] gen.st = "Suspend1" -> Yielded(CallTail(<<m - 1, r>>), gen, "Suspend2", 0)
      [] gen.st = "Suspend2" -> Complete(r, gen)
      [] OTHER -> Panicked(gen)

\* A client of recurse whose recursion never ends:
\*     recurse(|n| move |_| { yield n + 1 })
ResumeDiverge(gen, r) ==
    CASE gen.st = "Unresumed" -> Yielded(gen.arg + 1, gen, "Suspend0", 0)
      [] gen.st = "Suspend0" -> Complete(r, gen)
      [] OTHER -> Panicked(gen)

\* A client of recurse_tco in purely tail-recursive form (an accumulator):
\*     recurse_tco(|(n, acc)| move |_| {
\*         if n == 0 { acc } else { yield Call::tail((n - 1, acc + n)) } })
ResumeTailSum(gen, r) ==
    LET n == gen.arg[1]
        acc == gen.arg[2]
    IN
    CASE gen.st = "Unresumed" ->
            IF n = 0 THEN Complete(acc, gen)
                     ELSE Yielded(CallTail(<<n - 1, acc + n>>), gen, "Suspend0", 0)
      [] gen.st = "Suspend0" -> Complete(r, gen)
      [] OTHER -> Panicked(gen)

\* tarjan.rs 80: usize::MAX marks a node not visited yet.  It is only compared
\* and passed to min, never computed with; TLC's integers are 32 bits wide, so
\* the model takes the largest of those.
UsizeMax == 2147483647

Min(a, b) == IF a <= b THEN a ELSE b

\* tarjan.rs 72-81: the State tarjan starts with, for a graph of n nodes
InitState(n) ==
    [index |-> 0,
     indices |-> [x \in 0..(n - 1) |-> UsizeMax],
     lowlinks |-> [x \in 0..(n - 1) |-> UsizeMax],
     components |-> <<>>,
     stack |-> <<>>,
     on_stack |-> {}]

\* tarjan.rs 87-91: the generator's first statements
DfsEnter(v, s) ==
    [s EXCEPT !.indices[v] = s.index,
              !.lowlinks[v] = s.index,
              !.index = s.index + 1,
              !.stack = Append(s.stack, v),
              !.on_stack = s.on_stack \cup {v}]

\* Faulty variant, to test the properties against: a component found goes to the front of
\* components, not to its end
RECURSIVE PopComponentFirst(_, _, _)
PopComponentFirst(v, s, component) ==
    LET w == s.stack[Len(s.stack)]
        s1 == [s EXCEPT !.stack = SubSeq(s.stack, 1, Len(s.stack) - 1),
                        !.on_stack = s.on_stack \ {w}]
        c1 == Append(component, w)
    IN IF w = v THEN [s1 EXCEPT !.components = <<c1>> \o s1.components]
                ELSE PopComponentFirst(v, s1, c1)

\* tarjan.rs 105-109: while w != v { w = s.stack.pop().unwrap(); ... }
RECURSIVE PopComponent(_, _, _)
PopComponent(v, s, component) ==
    LET w == Last(s.stack)
        s1 == [s EXCEPT !.stack = Front(s.stack), !.on_stack = s.on_stack \ {w}]
        c1 == Append(component, w)
    IN IF w = v THEN [s1 EXCEPT !.components = Append(s1.components, c1)]
                ELSE PopComponent(v, s1, c1)

\* tarjan.rs 102-112: after the for loop
DfsLeave(v, s) ==
    IF s.lowlinks[v] = s.indices[v] THEN PopComponent(v, s, <<>>) ELSE s

\* tarjan.rs 93-112: the for loop over graph[v.id] from its i-th neighbour on,
\* up to the next yield or the generator's return
RECURSIVE DfsLoop(_, _, _)
DfsLoop(gen, i, s) ==
    LET v == gen.arg IN
    IF i > Len(graph[v]) THEN Complete(<<<<>>, DfsLeave(v, s)>>, gen)
    ELSE LET w == graph[v][i] IN
         IF s.indices[w] = UsizeMax THEN Yielded(<<w, s>>, gen, "Suspend0", i)
         ELSE IF w \in s.on_stack
         THEN DfsLoop(gen, i + 1,
                      [s EXCEPT !.lowlinks[v] = Min(s.lowlinks[v], s.indices[w])])
         ELSE DfsLoop(gen, i + 1, s)

\* Faulty variant, to test the properties against: the generator keeps a copy of the state it
\* yields (field s of the frame) and goes on from that copy when it is resumed
KeepState(out) ==
    IF out.tag = "Yielded" THEN [out EXCEPT !.gen = [s |-> out.val[2]] @@ out.gen]
                           ELSE out

ResumeDfsKeepsState(gen, rs) ==
    LET v == gen.arg IN
    CASE gen.st = "Unresumed" -> KeepState(DfsLoop(gen, 1, DfsEnter(v, rs[2])))
      [] gen.st = "Suspend0" ->
            LET w == graph[v][gen.loc]
                s == gen.s
            IN KeepState(DfsLoop(gen, gen.loc + 1,
                                 [s EXCEPT !.lowlinks[v] = Min(s.lowlinks[v], s.lowlinks[w])]))
      [] OTHER -> Panicked(gen)

\* Faulty variant, to test the properties against: a resumed generator does not take the lowlink
\* of the child it waited for
ResumeDfsNoLowlink(gen, rs) ==
    LET v == gen.arg
        s == rs[2]
    IN
    CASE gen.st = "Unresumed" -> DfsLoop(gen, 1, DfsEnter(v, s))
      [] gen.st = "Suspend0" -> DfsLoop(gen, gen.loc + 1, s)
      [] OTHER -> Panicked(gen)

\* tarjan.rs 84-114: the dfs generator; it is resumed with (res, state) and
\* hands the state back with every yield and with its return value
ResumeDfs(gen, rs) ==
    LET v == gen.arg
        s == rs[2]
    IN
    CASE gen.st = "Unresumed" -> DfsLoop(gen, 1, DfsEnter(v, s))
      [] gen.st = "Suspend0" ->
            LET w == graph[v][gen.loc] IN
            DfsLoop(gen, gen.loc + 1,
                    [s EXCEPT !.lowlinks[v] = Min(s.lowlinks[v], s.lowlinks[w])])
      [] OTHER -> Panicked(gen)

----------------------------------------------------------------------------
(* The generators written by hand (state machines with a resume of their   *)
(* own).  A hand-written generator as built by its constructor (Kont::init, *)
(* SimpleGen::new, DepthGen::init) is the record NewGen builds: its first  *)
(* state (Kont::A, SimpleGen::Unresumed, DepthGen::Init) is st =           *)
(* "Unresumed"; the other states keep their names.                         *)

\* GeneratorState::Complete(val) of a resume that leaves the generator in
\* the state st.
CompleteIn(val, gen, st) ==
    [tag |-> "Complete", val |-> val, gen |-> [gen EXCEPT !.st = st]]

\* Faulty variant, to test the properties against: for n = 0 the state machine asks for
\* A(m - 1, 0)
ResumeKontZero(gen, r) ==
    LET m == gen.arg[1]
        n == gen.arg[2]
    IN
    CASE gen.st = "Unresumed" ->
            IF m = 0 THEN CompleteIn(n + 1, gen, gen.st)
            ELSE IF n = 0 THEN Yielded(<<m - 1, 0>>, gen, "B", 0)
            ELSE Yielded(<<m, n - 1>>, gen, "C", 0)
      [] gen.st = "B" -> CompleteIn(r, gen, gen.st)
      [] gen.st = "C" -> Yielded(<<m - 1, r>>, gen, "D", 0)
      [] gen.st = "D" -> CompleteIn(r, gen, gen.st)

\* bin/ackermann.rs 94-119: manual::Kont::resume.  arg is (m, n) of A {m, n}
\* and keeps the m of C {m}.  No state stands for "returned": A with m = 0, B
\* and D answer Complete and stay as they are.
ResumeKont(gen, r) ==
    LET m == gen.arg[1]
        n == gen.arg[2]
    IN
    CASE gen.st = "Unresumed" ->
            IF m = 0 THEN CompleteIn(n + 1, gen, gen.st)
            ELSE IF n = 0 THEN Yielded(<<m - 1, 1>>, gen, "B", 0)
            ELSE Yielded(<<m, n - 1>>, gen, "C", 0)
      [] gen.st = "B" -> CompleteIn(r, gen, gen.st)
      [] gen.st = "C" -> Yielded(<<m - 1, r>>, gen, "D", 0)
      [] gen.st = "D" -> CompleteIn(r, gen, gen.st)

\* bin/ackermann.rs 142-161: manual_tco::Kont::resume.  The states are A
\* {m, n} and C {m}; a tail call leaves the state as it is, and no state
\* stands for "returned".
ResumeKontTco(gen, r) ==
    LET m == gen.arg[1]
        n == gen.arg[2]
    IN
    CASE gen.st = "Unresumed" ->
            IF m = 0 THEN CompleteIn(n + 1, gen, gen.st)
            ELSE IF n = 0 THEN Yielded(CallTail(<<m - 1, 1>>), gen, gen.st, 0)
            ELSE Yielded(CallNormal(<<m, n - 1>>), gen, "C", 0)
      [] gen.st = "C" -> Yielded(CallTail(<<m - 1, r>>), gen, gen.st, 0)

\* examples/blog_expr.rs 13-17: enum Exp, an f64 taken for an integer.
Num(val) == [tag |-> "Num", val |-> val, exps |-> <<>>]

Add(exps) == [tag |-> "Add", val |-> 0, exps |-> exps]

Mul(exp1, exp2) == [tag |-> "Mul", val |-> 0, exps |-> <<exp1, exp2>>]

\* examples/blog_expr.rs 87-143: SimpleGen::resume.  arg is `init`; in state
\* Add loc is [sum, iter], iter the number of `exps` the iterator has given
\* out; in state Mul2 loc is val1 (the exp2 of Mul1 is read from arg).
ResumeSimpleGen(gen, r) ==
    LET init == gen.arg IN
    CASE gen.st = "Unresumed" ->
            (CASE init.tag = "Num" -> CompleteIn(init.val, gen, "Returned")
               [] init.tag = "Add" ->
                     IF Len(init.exps) > 0
                     THEN Yielded(init.exps[1], gen, "Add", [sum |-> 0, iter |-> 1])
                     ELSE CompleteIn(0, gen, "Returned")
               [] init.tag = "Mul" -> Yielded(init.exps[1], gen, "Mul1", 0))
      [] gen.st = "Returned" -> Panicked(gen)
      [] gen.st = "Add" ->
            LET sum == gen.loc.sum + r
                iter == gen.loc.iter
            IN
            IF iter < Len(init.exps)
            THEN Yielded(init.exps[iter + 1], gen, "Add", [sum |-> sum, iter |-> iter + 1])
            ELSE CompleteIn(sum, gen, "Returned")
      [] gen.st = "Mul1" -> Yielded(init.exps[2], gen, "Mul2", r)
      [] gen.st = "Mul2" -> CompleteIn(gen.loc * r, gen, "Returned")

\* examples/blog_expr.rs 20-37: eval_recursive
RECURSIVE ExpEvalRecursive(_)
RECURSIVE ExpSum(_, _)
ExpSum(exps, i) ==
    IF i > Len(exps) THEN 0
    ELSE LET val == ExpEvalRecursive(exps[i]) IN val + ExpSum(exps, i + 1)

ExpEvalRecursive(exp) ==
    CASE exp.tag = "Num" -> exp.val
      [] exp.tag = "Add" -> ExpSum(exp.exps, 1)
      [] exp.tag = "Mul" ->
            LET val1 == ExpEvalRecursive(exp.exps[1])
                val2 == ExpEvalRecursive(exp.exps[2])
            IN val1 * val2

\* examples/blog_expr.rs 41-61: the generator of eval_generator.  In the
\* while loop of Add (suspended at "Suspend0") loc is [sum, iter], iter the
\* number of `exps` the iterator has given out; after the first yield of Mul
\* ("Suspend1") the generator waits for val1, after the second ("Suspend2")
\* loc is val1.
ResumeEvalGenerator(gen, r) ==
    LET self == gen.arg IN
    CASE gen.st = "Unresumed" ->
            (CASE self.tag = "Num" -> Complete(self.val, gen)
               [] self.tag = "Add" ->
                     IF Len(self.exps) > 0
                     THEN Yielded(self.exps[1], gen, "Suspend0", [sum |-> 0, iter |-> 1])
                     ELSE Complete(0, gen)
               [] self.tag = "Mul" -> Yielded(self.exps[1], gen, "Suspend1", 0))
      [] gen.st = "Suspend0" ->
            LET sum == gen.loc.sum + r
                iter == gen.loc.iter
            IN
            IF iter < Len(self.exps)
            THEN Yielded(self.exps[iter + 1], gen, "Suspend0",
                         [sum |-> sum, iter |-> iter + 1])
            ELSE Complete(sum, gen)
      [] gen.st = "Suspend1" -> Yielded(self.exps[2], gen, "Suspend2", r)
      [] gen.st = "Suspend2" -> Complete(gen.loc * r, gen)
      [] OTHER -> Panicked(gen)

\* examples/blog_expr.rs 158-164: the fields of ActualGen next to
\* discriminator and init; None is MaybeUninit::uninit()
ActualFields(sum_or_exp2, val1, iter) ==
    [sum_or_exp2 |-> sum_or_exp2, val1 |-> val1, iter |-> iter]

\* Faulty variant, to test the properties against: in state Add the value of the operand
\* replaces the sum
ResumeActualGenSumLost(gen, arg) ==
    LET init == gen.arg
        this == gen.loc
    IN
    CASE gen.st = "Unresumed" ->
            (CASE init.tag = "Num" -> CompleteIn(init.val, gen, "Returned")
               [] init.tag = "Add" ->
                     IF Len(init.exps) > 0
                     THEN Yielded(init.exps[1], gen, "Add", ActualFields(0, None, 1))
                     ELSE [CompleteIn(0, gen, "Returned") EXCEPT
                              !.gen.loc = ActualFields(0, None, 0)]
               [] init.tag = "Mul" ->
                     Yielded(init.exps[1], gen, "Mul1", ActualFields(init.exps[2], None, None)))
      [] gen.st \in {"Returned", "Panicked"} -> Panicked(gen)
      [] gen.st = "Add" ->
            LET sum == arg IN
            IF this.iter < Len(init.exps)
            THEN Yielded(init.exps[this.iter + 1], gen, "Add",
                         ActualFields(sum, this.val1, this.iter + 1))
            ELSE [CompleteIn(sum, gen, "Returned") EXCEPT
                     !.gen.loc = ActualFields(sum, this.val1, this.iter)]
      [] gen.st = "Mul1" ->
            Yielded(this.sum_or_exp2, gen, "Mul2",
                    ActualFields(this.sum_or_exp2, arg, this.iter))
      [] gen.st = "Mul2" -> CompleteIn(this.val1 * arg, gen, "Returned")

\* examples/blog_expr.rs 179-236: ActualGen::resume.  arg of the generator
\* is `init`, st the discriminator, loc the other fields; iter is the number
\* of `exps` the iterator has given out.  sum_or_exp2 is a union: it holds
\* the sum in state Add and exp2 in the states Mul1 and Mul2.
ResumeActualGen(gen, arg) ==
    LET init == gen.arg
        this == gen.loc
    IN
    CASE gen.st = "Unresumed" ->
            (CASE init.tag = "Num" -> CompleteIn(init.val, gen, "Returned")
               [] init.tag = "Add" ->
                     IF Len(init.exps) > 0
                     THEN Yielded(init.exps[1], gen, "Add", ActualFields(0, None, 1))
                     ELSE [CompleteIn(0, gen, "Returned") EXCEPT
                              !.gen.loc = ActualFields(0, None, 0)]
               [] init.tag = "Mul" ->
                     Yielded(init.exps[1], gen, "Mul1", ActualFields(init.exps[2], None, None)))
      [] gen.st \in {"Returned", "Panicked"} -> Panicked(gen)
      [] gen.st = "Add" ->
            LET sum == this.sum_or_exp2 + arg IN
            IF this.iter < Len(init.exps)
            THEN Yielded(init.exps[this.iter + 1], gen, "Add",
                         ActualFields(sum, this.val1, this.iter + 1))
            ELSE [CompleteIn(sum, gen, "Returned") EXCEPT
                     !.gen.loc = ActualFields(sum, this.val1, this.iter)]
      [] gen.st = "Mul1" ->
            Yielded(this.sum_or_exp2, gen, "Mul2",
                    ActualFields(this.sum_or_exp2, arg, this.iter))
      [] gen.st = "Mul2" -> CompleteIn(this.val1 * arg, gen, "Returned")

\* benches/tree.rs 9-12: struct Tree
Tree(value, children) == [value |-> value, children |-> children]

Max(a, b) == IF a >= b THEN a ELSE b

\* benches/tree.rs 127-168: DepthGen::resume.  arg is `tree`; in state Call
\* loc is [max_child_depth, children], children the number of children the
\* iterator has given out.
ResumeDepthGen(gen, child_depth) ==
    LET tree == gen.arg IN
    CASE gen.st = "Unresumed" ->
            IF Len(tree.children) > 0
            THEN Yielded(tree.children[1], gen, "Call",
                         [max_child_depth |-> 0, children |-> 1])
            ELSE CompleteIn(0 + 1, gen, "Done")
      [] gen.st = "Call" ->
            LET max_child_depth == Max(gen.loc.max_child_depth, child_depth)
                children == gen.loc.children
            IN
            IF children < Len(tree.children)
            THEN Yielded(tree.children[children + 1], gen, "Call",
                         [max_child_depth |-> max_child_depth,
                          children |-> children + 1])
            ELSE CompleteIn(max_child_depth + 1, gen, "Done")
      [] gen.st = "Done" -> Panicked(gen)

\* benches/tree.rs 34-40: depth_recursive
RECURSIVE DepthRecursive(_)
RECURSIVE DepthChildren(_, _, _)
DepthChildren(children, i, max_child_depth) ==
    IF i > Len(children) THEN max_child_depth
    ELSE DepthChildren(children, i + 1, Max(max_child_depth, DepthRecursive(children[i])))

DepthRecursive(tree) == DepthChildren(tree.children, 1, 0) + 1

\* benches/tree.rs 60-66: sum_recursive
RECURSIVE SumRecursive(_)
RECURSIVE SumChildren(_, _, _)
SumChildren(children, i, result) ==
    IF i > Len(children) THEN result
    ELSE SumChildren(children, i + 1, result + SumRecursive(children[i]))

SumRecursive(tree) == SumChildren(tree.children, 1, tree.value)

\* benches/tree.rs 44-53: the generator of depth_stack_safe; suspended in
\* the for loop, loc is [max_child_depth, children], children the number of
\* children the loop has taken
ResumeDepthStackSafe(gen, r) ==
    LET tree == gen.arg IN
    CASE gen.st = "Unresumed" ->
            IF Len(tree.children) > 0
            THEN Yielded(tree.children[1], gen, "Suspend0",
                         [max_child_depth |-> 0, children |-> 1])
            ELSE Complete(0 + 1, gen)
      [] gen.st = "Suspend0" ->
            LET max_child_depth == Max(gen.loc.max_child_depth, r)
                children == gen.loc.children
            IN
            IF children < Len(tree.children)
            THEN Yielded(tree.children[children + 1], gen, "Suspend0",
                         [max_child_depth |-> max_child_depth, children |-> children + 1])
            ELSE Complete(max_child_depth + 1, gen)
      [] OTHER -> Panicked(gen)

\* benches/tree.rs 69-77: the generator of sum_stack_safe; suspended in the
\* for loop, loc is [result, children]
ResumeSumStackSafe(gen, r) ==
    LET tree == gen.arg IN
    CASE gen.st = "Unresumed" ->
            IF Len(tree.children) > 0
            THEN Yielded(tree.children[1], gen, "Suspend0",
                         [result |-> tree.value, children |-> 1])
            ELSE Complete(tree.value, gen)
      [] gen.st = "Suspend0" ->
            LET result == gen.loc.result + r
                children == gen.loc.children
            IN
            IF children < Len(tree.children)
            THEN Yielded(tree.children[children + 1], gen, "Suspend0",
                         [result |-> result, children |-> children + 1])
            ELSE Complete(result, gen)
      [] OTHER -> Panicked(gen)

\* Faulty variant, to test the properties against: the state machine starts its sum at 0,
\* not at the value of its node
ResumeSumGenNoValue(gen, child_sum) ==
    LET tree == gen.arg IN
    CASE gen.st = "Unresumed" ->
            IF Len(tree.children) > 0
            THEN Yielded(tree.children[1], gen, "Call", [sum |-> 0, children |-> 1])
            ELSE CompleteIn(0, gen, "Done")
      [] gen.st = "Call" ->
            LET sum == gen.loc.sum + child_sum
                children == gen.loc.children
            IN
            IF children < Len(tree.children)
            THEN Yielded(tree.children[children + 1], gen, "Call",
                         [sum |-> sum, children |-> children + 1])
            ELSE CompleteIn(sum, gen, "Done")
      [] gen.st = "Done" -> Panicked(gen)

\* benches/tree.rs 198-223: SumGen::resume.  arg is `tree`; in state Call
\* loc is [sum, children], children the number of children the iterator has
\* given out.
ResumeSumGen(gen, child_sum) ==
    LET tree == gen.arg IN
    CASE gen.st = "Unresumed" ->
            IF Len(tree.children) > 0
            THEN Yielded(tree.children[1], gen, "Call",
                         [sum |-> tree.value, children |-> 1])
            ELSE CompleteIn(tree.value, gen, "Done")
      [] gen.st = "Call" ->
            LET sum == gen.loc.sum + child_sum
                children == gen.loc.children
            IN
            IF children < Len(tree.children)
            THEN Yielded(tree.children[children + 1], gen, "Call",
                         [sum |-> sum, children |-> children + 1])
            ELSE CompleteIn(sum, gen, "Done")
      [] gen.st = "Done" -> Panicked(gen)

\* children.iter(): a slice iterator, given is the number of items it has
\* given out
Iter(items) == [items |-> items, given |-> 0]

\* benches/tree.rs 89-99: one iteration of the loop of sum_loop
SumLoopStep(sum, forest, stk) ==
    IF forest.given < Len(forest.items)
    THEN LET tree == forest.items[forest.given + 1] IN
         [stack |-> Append(stk, [forest EXCEPT !.given = @ + 1]),
          current |-> Iter(tree.children),
          res |-> sum + tree.value,
          pc |-> "loop", ret |-> <<>>, made |-> <<tree>>, ev |-> <<>>]
    ELSE IF stk # <<>>
    THEN [stack |-> Front(stk), current |-> Last(stk), res |-> sum,
          pc |-> "loop", ret |-> <<>>, made |-> <<>>, ev |-> <<>>]
    ELSE [stack |-> stk, current |-> forest, res |-> sum,
          pc |-> "done", ret |-> <<sum>>, made |-> <<>>, ev |-> <<>>]

----------------------------------------------------------------------------
(* benches/calc.rs: expressions of Num, Add and Mul and their evaluators.  *)
(* A Num (f64) is taken for an integer; the values of the expressions      *)
(* checked are small integers, on which the f64 operations are exact.      *)

\* benches/calc.rs 10-14: enum Expr
ExprNum(num) == <<"Num", num>>

ExprAdd(expr1, expr2) == <<"Add", expr1, expr2>>

ExprMul(expr1, expr2) == <<"Mul", expr1, expr2>>

\* benches/calc.rs 29-35: eval_recursive
RECURSIVE EvalRecursive(_)
EvalRecursive(expr) ==
    CASE expr[1] = "Num" -> expr[2]
      [] expr[1] = "Add" -> EvalRecursive(expr[2]) + EvalRecursive(expr[3])
      [] expr[1] = "Mul" -> EvalRecursive(expr[2]) * EvalRecursive(expr[3])

\* benches/calc.rs 40-46: the generator of eval_trampolined; the operands
\* of + and * are evaluated from left to right, so the value the first yield
\* got (loc) is kept over the second
ResumeEvalTrampolined(gen, r) ==
    LET e == gen.arg IN
    CASE gen.st = "Unresumed" ->
            IF e[1] = "Num" THEN Complete(e[2], gen)
            ELSE Yielded(e[2], gen, "Suspend0", 0)
      [] gen.st = "Suspend0" -> Yielded(e[3], gen, "Suspend1", r)
      [] gen.st = "Suspend1" ->
            IF e[1] = "Add" THEN Complete(gen.loc + r, gen) ELSE Complete(gen.loc * r, gen)
      [] OTHER -> Panicked(gen)

\* Faulty variant, to test the properties against: the state machine asks for the right
\* operand of an Add first
ResumeEvalTrampolinedOptRhsFirst(gen, val) ==
    LET expr == gen.arg IN
    CASE gen.st = "Unresumed" ->
            (CASE expr[1] = "Num" -> Complete(expr[2], gen)
               [] expr[1] = "Add" -> Yielded(expr[3], gen, "Add1", expr[2])
               [] expr[1] = "Mul" -> Yielded(expr[2], gen, "Mul1", expr[3]))
      [] gen.st = "Add1" -> Yielded(gen.loc, gen, "Add2", val)
      [] gen.st = "Add2" -> Complete(gen.loc + val, gen)
      [] gen.st = "Mul1" -> Yielded(gen.loc, gen, "Mul2", val)
      [] gen.st = "Mul2" -> Complete(gen.loc * val, gen)
      [] gen.st = "Returned" -> Panicked(gen)

\* benches/calc.rs 66-111: Gen::resume of eval_trampolined_opt.  Init {expr}
\* is the generator not yet resumed, loc the field of the state (rhs of Add1
\* and Mul1, lhs of Add2 and Mul2), "Returned" the state Done.
ResumeEvalTrampolinedOpt(gen, val) ==
    LET expr == gen.arg IN
    CASE gen.st = "Unresumed" ->
            (CASE expr[1] = "Num" -> Complete(expr[2], gen)
               [] expr[1] = "Add" -> Yielded(expr[2], gen, "Add1", expr[3])
               [] expr[1] = "Mul" -> Yielded(expr[2], gen, "Mul1", expr[3]))
      [] gen.st = "Add1" -> Yielded(gen.loc, gen, "Add2", val)
      [] gen.st = "Add2" -> Complete(gen.loc + val, gen)
      [] gen.st = "Mul1" -> Yielded(gen.loc, gen, "Mul2", val)
      [] gen.st = "Mul2" -> Complete(gen.loc * val, gen)
      [] gen.st = "Returned" -> Panicked(gen)

\* benches/calc.rs 120-125: enum Cont
ContLhs(tag, rhs) == [tag |-> tag, rhs |-> rhs]

ContRhs(tag, lhs) == [tag |-> tag, lhs |-> lhs]

\* benches/calc.rs 133-154: the inner loop of eval_iterative_cps, which pops
\* continuations until one asks for a right operand (break) or none is left
\* (return val)
RECURSIVE CpsUnwind(_, _, _)
CpsUnwind(expr, val, cont_chain) ==
    IF cont_chain = <<>>
    THEN [stack |-> cont_chain, current |-> expr, res |-> val, pc |-> "done",
          ret |-> <<val>>, made |-> <<>>, ev |-> <<>>]
    ELSE LET cont == Last(cont_chain)
             rest == Front(cont_chain)
         IN CASE cont.tag = "AddLhs" ->
                    [stack |-> Append(rest, ContRhs("AddRhs", val)), current |-> cont.rhs,
                     res |-> val, pc |-> "loop", ret |-> <<>>, made |-> <<cont.rhs>>,
                     ev |-> <<>>]
              [] cont.tag = "AddRhs" -> CpsUnwind(expr, val + cont.lhs, rest)
              [] cont.tag = "MulLhs" ->
                    [stack |-> Append(rest, ContRhs("MulRhs", val)), current |-> cont.rhs,
                     res |-> val, pc |-> "loop", ret |-> <<>>, made |-> <<cont.rhs>>,
                     ev |-> <<>>]
              [] cont.tag = "MulRhs" -> CpsUnwind(expr, val * cont.lhs, rest)

\* benches/calc.rs 129-167: one iteration of the outer loop of
\* eval_iterative_cps; res is the val of the last Num arm
CpsStep(expr, val, cont_chain) ==
    CASE expr[1] = "Num" -> CpsUnwind(expr, expr[2], cont_chain)
      [] expr[1] = "Add" ->
            [stack |-> Append(cont_chain, ContLhs("AddLhs", expr[3])), current |-> expr[2],
             res |-> val, pc |-> "loop", ret |-> <<>>, made |-> <<expr[2]>>, ev |-> <<>>]
      [] expr[1] = "Mul" ->
            [stack |-> Append(cont_chain, ContLhs("MulLhs", expr[3])), current |-> expr[2],
             res |-> val, pc |-> "loop", ret |-> <<>>, made |-> <<expr[2]>>, ev |-> <<>>]

----------------------------------------------------------------------------
(* Dispatch. *)

\* A generator of recurse made a client of recurse_tco: every
\*     yield arg      becomes      yield Call::normal(arg)
WrapNormal(out) ==
    IF out.tag = "Yielded" THEN [out EXCEPT !.val = CallNormal(out.val)] ELSE out

\* The clients of recurse_tco made that way, and the client of recurse each
\* comes from.
NormalPrograms == {"triangular_normal", "binomial_normal", "ackermann_normal"}

\* A generator of recurse made a client of recurse_mut: it is passed
\* (res, mut_arg) and hands mut_arg back as it got it, every
\*     yield arg      becomes      yield (arg, mut_arg)
\* and the value v it returns becomes (v, mut_arg).
WrapMut(out, m) == [out EXCEPT !.val = <<out.val, m>>]

\* The clients of recurse_mut made that way.
MutPrograms == {"triangular_mut", "binomial_mut", "ackermann_mut"}

Base(p) ==
    CASE p = "triangular_normal" -> "triangular"
      [] p = "binomial_normal" -> "binomial"
      [] p = "ackermann_normal" -> "ackermann"
      [] p = "triangular_mut" -> "triangular"
      [] p = "binomial_mut" -> "binomial"
      [] p = "ackermann_mut" -> "ackermann"
      [] OTHER -> p

\* resume of a generator built by the constructor p
ResumeAs(p, gen, r) ==
    CASE p = "triangular" -> ResumeTriangular(gen, r)
      [] p = "binomial" -> ResumeBinomial(gen, r)
      [] p = "ackermann" -> ResumeAckermann(gen, r)
      [] p = "ackermann_tco" -> ResumeAckermannTco(gen, r)
      [] p = "diverge" -> ResumeDiverge(gen, r)
      [] p = "tail_sum" -> ResumeTailSum(gen, r)
      [] p = "dfs" -> ResumeDfs(gen, r)
      [] p = "list_len" -> ResumeListLen(gen, r)
      [] p = "kont" -> ResumeKont(gen, r)
      [] p = "kont_tco" -> ResumeKontTco(gen, r)
      [] p = "simple_gen" -> ResumeSimpleGen(gen, r)
      [] p = "depth_gen" -> ResumeDepthGen(gen, r)
      [] p = "eval_generator" -> ResumeEvalGenerator(gen, r)
      [] p = "depth_stack_safe" -> ResumeDepthStackSafe(gen, r)
      [] p = "sum_stack_safe" -> ResumeSumStackSafe(gen, r)
      [] p = "sum_gen" -> ResumeSumGen(gen, r)
      [] p = "actual_gen" -> ResumeActualGen(gen, r)
      [] p = "eval_trampolined" -> ResumeEvalTrampolined(gen, r)
      [] p = "eval_trampolined_opt" -> ResumeEvalTrampolinedOpt(gen, r)
      [] p = "triangular_normal" -> WrapNormal(ResumeTriangular(gen, r))
      [] p = "binomial_normal" -> WrapNormal(ResumeBinomial(gen, r))
      [] p = "ackermann_normal" -> WrapNormal(ResumeAckermann(gen, r))
      [] p = "triangular_mut" -> WrapMut(ResumeTriangular(gen, r[1]), r[2])
      [] p = "binomial_mut" -> WrapMut(ResumeBinomial(gen, r[1]), r[2])
      [] p = "ackermann_mut" -> WrapMut(ResumeAckermann(gen, r[1]), r[2])

\* Pin::new(&mut current).resume(res), dispatched on the generator's type.
Resume(gen, r) == ResumeAs(prog, gen, r)

\* Res::default(): 0 for u64, () for the unit type of dfs
ResDefault == IF prog = "dfs" THEN <<>> ELSE 0

\* ghost: one entry of log.  "push": frame id was pushed when it asked for the
\* computation peer; "tail": generator id was dropped when it tail-called
\* peer; "pop": frame id was popped, the computation peer having completed.
\* val is the resume input the step leaves in res.
Event(ev, id, peer, val) ==
    [ev |-> ev, id |-> id, peer |-> peer, val |-> val]

----------------------------------------------------------------------------
(* The naive recursions, each returning its value and the calls it makes   *)
(* in the order it makes them (the call itself first, then the calls of    *)
(* its sub-calls, left to right), every call with its depth in the call    *)
(* tree.                                                                   *)

Visit(arg, d) == [arg |-> arg, depth |-> d]

\* tests/triangular.rs recursive
RECURSIVE TriangularRecursive(_, _)
TriangularRecursive(n, d) ==
    IF n = 0 THEN [val |-> 0, calls |-> <<Visit(n, d)>>]
    ELSE LET sub == TriangularRecursive(n - 1, d + 1) IN
         [val |-> n + sub.val, calls |-> <<Visit(n, d)>> \o sub.calls]

\* bin/ackermann.rs recursive
RECURSIVE AckermannRecursive(_, _, _)
AckermannRecursive(m, n, d) ==
    IF m = 0 THEN [val |-> n + 1, calls |-> <<Visit(<<m, n>>, d)>>]
    ELSE IF n = 0
    THEN LET sub == AckermannRecursive(m - 1, 1, d + 1) IN
         [val |-> sub.val, calls |-> <<Visit(<<m, n>>, d)>> \o sub.calls]
    ELSE LET inner == AckermannRecursive(m, n - 1, d + 1)
             outer == AckermannRecursive(m - 1, inner.val, d + 1)
         IN [val |-> outer.val,
             calls |-> <<Visit(<<m, n>>, d)>> \o inner.calls \o outer.calls]

\* The recursion binomial_stack_safe is the trampolined form of:
\*     C(n, 0) = C(n, n) = 1,  C(n, k) = C(n - 1, k - 1) + C(n - 1, k)
RECURSIVE BinomialRecursive(_, _, _)
BinomialRecursive(n, k, d) ==
    IF k = 0 \/ k = n THEN [val |-> 1, calls |-> <<Visit(<<n, k>>, d)>>]
    ELSE LET left == BinomialRecursive(n - 1, k - 1, d + 1)
             right == BinomialRecursive(n - 1, k, d + 1)
         IN [val |-> left.val + right.val,
             calls |-> <<Visit(<<n, k>>, d)>> \o left.calls \o right.calls]

\* tests/list.rs len_recursive
RECURSIVE LenRecursive(_, _)
LenRecursive(list, d) ==
    IF list = <<>> THEN [val |-> 0, calls |-> <<Visit(list, d)>>]
    ELSE LET sub == LenRecursive(Tail(list), d + 1) IN
         [val |-> 1 + sub.val, calls |-> <<Visit(list, d)>> \o sub.calls]

\* The generator constructors whose recursion ends on every input.
FinitePrograms == {"triangular", "binomial", "ackermann", "ackermann_tco", "list_len"}

Naive(p, a) ==
    CASE p = "triangular" -> TriangularRecursive(a, 0)
      [] p = "binomial" -> BinomialRecursive(a[1], a[2], 0)
      [] p \in {"ackermann", "ackermann_tco"} -> AckermannRecursive(a[1], a[2], 0)
      [] p = "list_len" -> LenRecursive(a, 0)

\* bin/ackermann.rs yield_tco, as the recursion it is the trampolined form
\* of: the calls in the order they are made, each with the number of normal
\* (Call::normal) calls it is nested in.  A tail call (Call::tail) takes the
\* place of its caller, so it is nested in as many normal calls as its caller.
RECURSIVE AckermannTcoRecursive(_, _, _)
AckermannTcoRecursive(m, n, d) ==
    IF m = 0 THEN [val |-> n + 1, calls |-> <<Visit(<<m, n>>, d)>>]
    ELSE IF n = 0
    THEN LET sub == AckermannTcoRecursive(m - 1, 1, d) IN
         [val |-> sub.val, calls |-> <<Visit(<<m, n>>, d)>> \o sub.calls]
    ELSE LET inner == AckermannTcoRecursive(m, n - 1, d + 1)
             outer == AckermannTcoRecursive(m - 1, inner.val, d)
         IN [val |-> outer.val,
             calls |-> <<Visit(<<m, n>>, d)>> \o inner.calls \o outer.calls]

\* The same for the accumulator recursion of ResumeTailSum: every call is a
\* tail call.
RECURSIVE TailSumRecursive(_, _)
TailSumRecursive(n, acc) ==
    IF n = 0 THEN [val |-> acc, calls |-> <<Visit(<<n, acc>>, 0)>>]
    ELSE LET sub == TailSumRecursive(n - 1, acc + n) IN
         [val |-> sub.val, calls |-> <<Visit(<<n, acc>>, 0)>> \o sub.calls]

\* The calls of a drive of recurse_tco, each with the number of normal calls
\* outstanding while it runs.
NormalCalls(p, a) ==
    CASE p \in {"ackermann_tco", "kont_tco"} -> AckermannTcoRecursive(a[1], a[2], 0).calls
      [] p = "tail_sum" -> TailSumRecursive(a[1], a[2]).calls
      [] p \in NormalPrograms -> Naive(Base(p), a).calls

----------------------------------------------------------------------------
(* recurse *)

\* Faulty variant, to test the properties against: the paused computation is not pushed
RecurseYieldedNoPush(stk, out, nid) ==
    [stack |-> stk,
     current |-> NewGen(out.val, nid),
     res |-> ResDefault,
     pc |-> "loop",
     ret |-> <<>>,
     made |-> <<out.val>>,
     ev |-> <<>>]

\* Faulty variant, to test the properties against: the paused computation is put under the stack, not on top of it
RecurseYieldedPushBottom(stk, out, nid) ==
    [stack |-> <<out.gen>> \o stk,
     current |-> NewGen(out.val, nid),
     res |-> ResDefault,
     pc |-> "loop",
     ret |-> <<>>,
     made |-> <<out.val>>,
     ev |-> <<Event("push", out.gen.id, nid, ResDefault)>>]

\* lib.rs 18-22: GeneratorState::Yielded(arg)
RecurseYielded(stk, out, nid) ==
    [stack |-> Append(stk, out.gen),
     current |-> NewGen(out.val, nid),
     res |-> ResDefault,
     pc |-> "loop",
     ret |-> <<>>,
     made |-> <<out.val>>,
     ev |-> <<Event("push", out.gen.id, nid, ResDefault)>>]

\* Faulty variant, to test the properties against: the popped frame is resumed with the placeholder, not with real_res
RecurseCompleteDefaultRes(stk, out) ==
    IF stk = <<>>
    THEN [stack |-> stk, current |-> out.gen, res |-> ResDefault,
          pc |-> "done", ret |-> <<out.val>>, made |-> <<>>, ev |-> <<>>]
    ELSE [stack |-> Front(stk), current |-> Last(stk), res |-> ResDefault,
          pc |-> "loop", ret |-> <<>>, made |-> <<>>,
          ev |-> <<Event("pop", Last(stk).id, out.gen.id, ResDefault)>>]

\* Faulty variant, to test the properties against: the oldest frame is taken (a queue), not the newest
RecurseCompleteFifo(stk, out) ==
    IF stk = <<>>
    THEN [stack |-> stk, current |-> out.gen, res |-> ResDefault,
          pc |-> "done", ret |-> <<out.val>>, made |-> <<>>, ev |-> <<>>]
    ELSE [stack |-> Tail(stk), current |-> Head(stk), res |-> out.val,
          pc |-> "loop", ret |-> <<>>, made |-> <<>>,
          ev |-> <<Event("pop", Head(stk).id, out.gen.id, out.val)>>]

\* Faulty variant, to test the properties against: the drive returns one frame early
RecurseCompleteEarlyReturn(stk, out) ==
    IF Len(stk) <= 1
    THEN [stack |-> stk, current |-> out.gen, res |-> ResDefault,
          pc |-> "done", ret |-> <<out.val>>, made |-> <<>>, ev |-> <<>>]
    ELSE [stack |-> Front(stk), current |-> Last(stk), res |-> out.val,
          pc |-> "loop", ret |-> <<>>, made |-> <<>>,
          ev |-> <<Event("pop", Last(stk).id, out.gen.id, out.val)>>]

\* Faulty variant, to test the properties against: with an empty stack the loop goes on instead of returning
RecurseCompleteNoReturn(stk, out) ==
    IF stk = <<>>
    THEN [stack |-> stk, current |-> out.gen, res |-> out.val,
          pc |-> "loop", ret |-> <<>>, made |-> <<>>, ev |-> <<>>]
    ELSE [stack |-> Front(stk), current |-> Last(stk), res |-> out.val,
          pc |-> "loop", ret |-> <<>>, made |-> <<>>,
          ev |-> <<Event("pop", Last(stk).id, out.gen.id, out.val)>>]

\* Faulty variant, to test the properties against: the top frame becomes the live computation and
\* stays on the stack
RecurseCompletePeek(stk, out) ==
    IF stk = <<>>
    THEN [stack |-> stk, current |-> out.gen, res |-> ResDefault,
          pc |-> "done", ret |-> <<out.val>>, made |-> <<>>, ev |-> <<>>]
    ELSE [stack |-> stk, current |-> Last(stk), res |-> out.val,
          pc |-> "loop", ret |-> <<>>, made |-> <<>>,
          ev |-> <<Event("pop", Last(stk).id, out.gen.id, out.val)>>]

\* lib.rs 23-29: GeneratorState::Complete(real_res)
RecurseComplete(stk, out) ==
    IF stk = <<>>
    THEN [stack |-> stk, current |-> out.gen, res |-> ResDefault,
          pc |-> "done", ret |-> <<out.val>>, made |-> <<>>, ev |-> <<>>]
    ELSE [stack |-> Front(stk), current |-> Last(stk), res |-> out.val,
          pc |-> "loop", ret |-> <<>>, made |-> <<>>,
          ev |-> <<Event("pop", Last(stk).id, out.gen.id, out.val)>>]

\* A panic in resume unwinds out of the driver.  (Once the drive is over its
\* locals are gone: res keeps a value of its type.)
DrivePanicked(stk, out) ==
    [stack |-> stk, current |-> out.gen, res |-> ResDefault,
     pc |-> "panicked", ret |-> <<>>, made |-> <<>>, ev |-> <<>>]

\* lib.rs 17-30: the match on what resume answered
RecurseMatch(stk, out, nid) ==
    CASE out.tag = "Yielded" -> RecurseYielded(stk, out, nid)
      [] out.tag = "Complete" -> RecurseComplete(stk, out)
      [] out.tag = "Panicked" -> DrivePanicked(stk, out)

\* lib.rs 16-31: one iteration of the loop
RecurseStep(stk, cur, r, nid) == RecurseMatch(stk, Resume(cur, r), nid)

\* The call frames on the native stack while a driver resumes a generator:
\* the closure the thread runs, the function it calls (stack_safe, tarjan),
\* the closure the driver returned, whose loop makes every call of resume,
\* and resume.
DriveFrames == 4

\* Faulty variant, to test the properties against: a driver that resumes the new generator from
\* inside the call that resumed its caller
NativeUseNested(stk) == DriveFrames + Len(stk)

\* lib.rs 16-18: the call frames in use while the loop resumes `current`,
\* stk being the Vec of paused generators: the Vec is on the heap, and the
\* loop calls resume from the one frame it runs in.
NativeUse(stk) == DriveFrames

\* A thread that needs more call frames than its stack holds overflows its
\* stack: the iteration does not end, the locals stay as they are, and the
\* runtime aborts the process (a stack overflow is no unwinding panic).
StackOverflow ==
    [stack |-> stack, current |-> current, res |-> res, pc |-> "overflow",
     ret |-> <<>>, made |-> <<>>, ev |-> <<>>, native |-> size]

\* The outcome n of an iteration that needs `frames` call frames, on the
\* stack of the thread.
OnStack(frames, n) ==
    IF size > 0 /\ frames > size THEN StackOverflow ELSE n @@ [native |-> frames]

\* The assignments of one iteration; n is the iteration's outcome, evaluated
\* once.
Apply(n) ==
    /\ stack' = n.stack
    /\ current' = n.current
    /\ res' = n.res
    /\ pc' = n.pc
    /\ ret' = n.ret
    /\ mut_arg' = IF "mut_arg" \in DOMAIN n THEN n.mut_arg ELSE mut_arg
    /\ calls' = calls \o n.made
    /\ log' = log \o n.ev
    /\ aux_log' = aux_log \o (IF "aux" \in DOMAIN n THEN n.aux ELSE <<>>)
    /\ max_depth' = IF Len(n.stack) > max_depth THEN Len(n.stack) ELSE max_depth
    /\ native' = IF "native" \in DOMAIN n THEN Max(native, n.native) ELSE native
    /\ UNCHANGED <<size, joined, other>>

\* lib.rs 16-31: up to k iterations of the loop, for the constructor p, from
\* the iteration whose locals are c.n on (c.nid: the number of the next
\* generator to build); the loop is left at the return or the panic.  The
\* iterations are split in two halves to keep the evaluation shallow.
RECURSIVE RecurseLoop(_, _, _)
RecurseLoop(p, c, k) ==
    IF k = 0 \/ c.n.pc # "loop" THEN c
    ELSE IF k = 1
    THEN LET n == RecurseMatch(c.n.stack, ResumeAs(p, c.n.current, c.n.res), c.nid)
         IN [n |-> n, nid |-> c.nid + Len(n.made)]
    ELSE RecurseLoop(p, RecurseLoop(p, c, k \div 2), k - (k \div 2))

\* lib.rs 11-32: recurse(f)(arg) for the constructor p, as a function: the
\* locals after at most k iterations
RecurseRun(p, arg, k) ==
    RecurseLoop(p,
                [n |-> [stack |-> <<>>, current |-> NewGen(arg, 1), res |-> ResDefault,
                        pc |-> "loop", ret |-> <<>>],
                 nid |-> 2],
                k).n

Recurse ==
    /\ driver = "recurse"
    /\ pc = "loop"
    \* the heap is finite: a recursion that never ends is cut at MaxDepth frames
    /\ prog = "diverge" => Len(stack) < MaxDepth
    /\ \E n \in {OnStack(NativeUse(stack), RecurseStep(stack, current, res, Len(calls) + 1))} : Apply(n)
    /\ UNCHANGED <<driver, prog, graph, arg0, for_id>>

----------------------------------------------------------------------------
(* The closure recurse returned, called twice with the same argument, the  *)
(* iterations of the two calls interleaved in any order.  The first call   *)
(* has its locals in stack, current and res, the second in `other`.        *)

\* lib.rs 12-14: the locals of a call of the closure when its loop is entered
\* (nid: ghost, the number of the next generator the call builds; steps:
\* ghost, the iterations made).
EnterLocals(arg) ==
    [stack |-> <<>>, current |-> NewGen(arg, 1), res |-> ResDefault, pc |-> "loop",
     ret |-> <<>>, nid |-> 2, steps |-> 0]

\* No second call.
NoLocals ==
    [stack |-> <<>>, current |-> NoGen, res |-> 0, pc |-> "none", ret |-> <<>>,
     nid |-> 0, steps |-> 0]

\* Faulty variant, to test the properties against: `res` is one variable shared by all calls of the
\* closure
DriveStepSharedRes(d) == RecurseStep(d.stack, d.current, res, d.nid)

\* lib.rs 16-31: one iteration of the loop of the call whose locals are d
DriveStep(d) == RecurseStep(d.stack, d.current, d.res, d.nid)

RecurseFirst ==
    /\ driver = "recurse_twice"
    /\ pc = "loop"
    /\ \E n \in {DriveStep([stack |-> stack, current |-> current, res |-> res,
                             nid |-> Len(calls) + 1])} :
            Apply(OnStack(NativeUse(stack), n))
    /\ UNCHANGED <<driver, prog, graph, arg0, for_id>>

RecurseSecond ==
    /\ driver = "recurse_twice"
    /\ other.pc = "loop"
    /\ \E n \in {DriveStep(other)} :
            other' = [stack |-> n.stack, current |-> n.current, res |-> n.res,
                      pc |-> n.pc, ret |-> n.ret, nid |-> other.nid + Len(n.made),
                      steps |-> other.steps + 1]
    /\ UNCHANGED <<driver, prog, graph, arg0, stack, current, res, mut_arg, for_id, pc,
                   ret, calls, log, aux_log, max_depth, size, native, joined>>

----------------------------------------------------------------------------
(* recurse_tco *)

\* Faulty variant, to test the properties against: the marker is ignored, every call pushes
TcoYieldedAlwaysPush(stk, out, nid) ==
    LET call == out.val IN
    [stack |-> Append(stk, out.gen),
     current |-> NewGen(call.arg, nid),
     res |-> ResDefault,
     pc |-> "loop",
     ret |-> <<>>,
     made |-> <<call.arg>>,
     ev |-> <<Event("push", out.gen.id, nid, ResDefault)>>]

\* Faulty variant, to test the properties against: the marker is read the wrong way round
TcoYieldedInverted(stk, out, nid) ==
    LET call == out.val IN
    [stack |-> IF call.is_tail THEN Append(stk, out.gen) ELSE stk,
     current |-> NewGen(call.arg, nid),
     res |-> ResDefault,
     pc |-> "loop",
     ret |-> <<>>,
     made |-> <<call.arg>>,
     ev |-> <<Event(IF call.is_tail THEN "push" ELSE "tail", out.gen.id, nid, ResDefault)>>]

\* lib.rs 65-71: GeneratorState::Yielded(call)
TcoYielded(stk, out, nid) ==
    LET call == out.val IN
    [stack |-> IF ~call.is_tail THEN Append(stk, out.gen) ELSE stk,
     current |-> NewGen(call.arg, nid),
     res |-> ResDefault,
     pc |-> "loop",
     ret |-> <<>>,
     made |-> <<call.arg>>,
     ev |-> <<Event(IF ~call.is_tail THEN "push" ELSE "tail", out.gen.id, nid, ResDefault)>>]

\* lib.rs 72-78: GeneratorState::Complete(res1)
TcoComplete(stk, out) ==
    IF stk = <<>>
    THEN [stack |-> stk, current |-> out.gen, res |-> ResDefault,
          pc |-> "done", ret |-> <<out.val>>, made |-> <<>>, ev |-> <<>>]
    ELSE [stack |-> Front(stk), current |-> Last(stk), res |-> out.val,
          pc |-> "loop", ret |-> <<>>, made |-> <<>>,
          ev |-> <<Event("pop", Last(stk).id, out.gen.id, out.val)>>]

\* lib.rs 64-79: the match on what the resumed generator answered
TcoMatch(stk, out, nid) ==
    CASE out.tag = "Yielded" -> TcoYielded(stk, out, nid)
      [] out.tag = "Complete" -> TcoComplete(stk, out)
      [] out.tag = "Panicked" -> DrivePanicked(stk, out)

\* lib.rs 63-80: one iteration of the loop
TcoStep(stk, cur, r, nid) == TcoMatch(stk, Resume(cur, r), nid)

RecurseTco ==
    /\ driver = "recurse_tco"
    /\ pc = "loop"
    /\ \E n \in {OnStack(NativeUse(stack), TcoStep(stack, current, res, Len(calls) + 1))} : Apply(n)
    /\ UNCHANGED <<driver, prog, graph, arg0, for_id>>

----------------------------------------------------------------------------
(* recurse_mut *)

\* Faulty variant, to test the properties against: the state handed back with a suspend is not
\* taken (mut_arg keeps what it held)
MutYieldedStaleState(stk, out, nid) ==
    [stack |-> Append(stk, out.gen),
     current |-> NewGen(out.val[1], nid),
     res |-> ResDefault,
     pc |-> "loop",
     ret |-> <<>>,
     made |-> <<out.val[1]>>,
     ev |-> <<Event("push", out.gen.id, nid, ResDefault)>>]

\* Faulty variant, to test the properties against: the suspended generator is dropped, as for a
\* tail call
MutYieldedElides(stk, out, nid) ==
    [mut_arg |-> out.val[2],
     stack |-> stk,
     current |-> NewGen(out.val[1], nid),
     res |-> ResDefault,
     pc |-> "loop",
     ret |-> <<>>,
     made |-> <<out.val[1]>>,
     ev |-> <<Event("tail", out.gen.id, nid, ResDefault)>>]

\* lib.rs 103-108: GeneratorState::Yielded((arg, new_mut_arg))
MutYielded(stk, out, nid) ==
    [mut_arg |-> out.val[2],
     stack |-> Append(stk, out.gen),
     current |-> NewGen(out.val[1], nid),
     res |-> ResDefault,
     pc |-> "loop",
     ret |-> <<>>,
     made |-> <<out.val[1]>>,
     ev |-> <<Event("push", out.gen.id, nid, ResDefault)>>]

\* Faulty variant, to test the properties against: the oldest frame is taken (a queue), not the newest
MutCompleteFifo(stk, out) ==
    IF stk = <<>>
    THEN [mut_arg |-> out.val[2], stack |-> stk, current |-> out.gen, res |-> ResDefault,
          pc |-> "done", ret |-> <<out.val[1]>>, made |-> <<>>, ev |-> <<>>]
    ELSE [mut_arg |-> out.val[2], stack |-> Tail(stk), current |-> Head(stk),
          res |-> out.val[1], pc |-> "loop", ret |-> <<>>, made |-> <<>>,
          ev |-> <<Event("pop", Head(stk).id, out.gen.id, out.val[1])>>]

\* Faulty variant, to test the properties against: the state handed back with a completion is
\* not taken, the slot keeps the state the resume was given
MutCompleteKeepsState(stk, out) ==
    IF stk = <<>>
    THEN [stack |-> stk, current |-> out.gen, res |-> ResDefault,
          pc |-> "done", ret |-> <<out.val[1]>>, made |-> <<>>, ev |-> <<>>]
    ELSE [stack |-> Front(stk), current |-> Last(stk),
          res |-> out.val[1], pc |-> "loop", ret |-> <<>>, made |-> <<>>,
          ev |-> <<Event("pop", Last(stk).id, out.gen.id, out.val[1])>>]

\* lib.rs 109-118: GeneratorState::Complete((new_res, new_mut_arg))
MutComplete(stk, out) ==
    IF stk = <<>>
    THEN [mut_arg |-> out.val[2], stack |-> stk, current |-> out.gen, res |-> ResDefault,
          pc |-> "done", ret |-> <<out.val[1]>>, made |-> <<>>, ev |-> <<>>]
    ELSE [mut_arg |-> out.val[2], stack |-> Front(stk), current |-> Last(stk),
          res |-> out.val[1], pc |-> "loop", ret |-> <<>>, made |-> <<>>,
          ev |-> <<Event("pop", Last(stk).id, out.gen.id, out.val[1])>>]

\* ghost: the iteration's outcome n, with the entry of aux_log for its resume:
\* generator cur was given the auxiliary state m and answered out
Threaded(n, cur, m, out) ==
    n @@ [aux |-> <<[id |-> cur.id, st |-> cur.st, given |-> m,
                     tag |-> out.tag, back |-> out.val[2]]>>]

\* lib.rs 101-120: one iteration of the loop
MutStep(stk, cur, r, m, nid) ==
    LET out == Resume(cur, <<r, m>>) IN
    CASE out.tag = "Yielded" -> Threaded(MutYielded(stk, out, nid), cur, m, out)
      [] out.tag = "Complete" -> Threaded(MutComplete(stk, out), cur, m, out)
      [] out.tag = "Panicked" -> DrivePanicked(stk, out)

RecurseMut ==
    /\ driver = "recurse_mut"
    /\ pc = "loop"
    /\ \E n \in {OnStack(NativeUse(stack), MutStep(stack, current, res, mut_arg, Len(calls) + 1))} : Apply(n)
    /\ UNCHANGED <<driver, prog, graph, arg0, for_id>>

----------------------------------------------------------------------------
(* recurse_st, which tarjan.rs calls and lib.rs does not hold: the         *)
(* state-threaded driver as the specification describes it.  The driver    *)
(* owns one slot for the current auxiliary state (here mut_arg, the        *)
(* caller's `s` it was lent); it moves the slot's content into each resume *)
(* and takes what the computation hands back, with a suspend or with its   *)
(* completion, as the slot's new content.                                  *)

\* the root computation is built from the initial argument
StStart(arg, nid) ==
    [stack |-> <<>>,
     current |-> NewGen(arg, nid),
     res |-> ResDefault,
     pc |-> "loop",
     ret |-> <<>>,
     made |-> <<arg>>,
     ev |-> <<>>]

\* a suspend yields (argument, state)
StYielded(stk, out, nid) ==
    [mut_arg |-> out.val[2],
     stack |-> Append(stk, out.gen),
     current |-> NewGen(out.val[1], nid),
     res |-> ResDefault,
     pc |-> "loop",
     ret |-> <<>>,
     made |-> <<out.val[1]>>,
     ev |-> <<Event("push", out.gen.id, nid, ResDefault)>>]

\* a completion yields (result, state)
StComplete(stk, out) ==
    IF stk = <<>>
    THEN [mut_arg |-> out.val[2], stack |-> stk, current |-> out.gen, res |-> ResDefault,
          pc |-> "done", ret |-> <<out.val[1]>>, made |-> <<>>, ev |-> <<>>]
    ELSE [mut_arg |-> out.val[2], stack |-> Front(stk), current |-> Last(stk),
          res |-> out.val[1], pc |-> "loop", ret |-> <<>>, made |-> <<>>,
          ev |-> <<Event("pop", Last(stk).id, out.gen.id, out.val[1])>>]

\* one iteration of the loop: each resume supplies (result, state)
StStep(stk, cur, r, m, nid) ==
    LET out == Resume(cur, <<r, m>>) IN
    CASE out.tag = "Yielded" -> Threaded(StYielded(stk, out, nid), cur, m, out)
      [] out.tag = "Complete" -> Threaded(StComplete(stk, out), cur, m, out)
      [] out.tag = "Panicked" -> DrivePanicked(stk, out)

RecurseSt ==
    /\ driver = "recurse_st"
    /\ pc = "loop"
    /\ \E n \in {OnStack(NativeUse(stack), StStep(stack, current, res, mut_arg, Len(calls) + 1))} : Apply(n)
    /\ UNCHANGED <<driver, prog, graph, arg0, for_id>>

----------------------------------------------------------------------------
(* tarjan *)

\* tarjan.rs 117-124: one turn of `for id in 0..n`, taken when tarjan is at
\* the head of the loop ("for") or the dfs of the turn before has returned
\* ("done"): after the last id tarjan returns s.components; for an id not
\* visited yet dfs(v, graph, &mut s) is called, which enters recurse_st.
TarjanFor ==
    /\ driver = "recurse_st"
    /\ pc \in {"for", "done"}
    /\ IF for_id = Cardinality(DOMAIN graph)
       THEN /\ pc' = "returned"
            /\ ret' = <<mut_arg.components>>
            /\ UNCHANGED <<stack, current, res, mut_arg, for_id, calls, log, aux_log,
                           max_depth, size, native, joined, other>>
       ELSE IF mut_arg.indices[for_id] = UsizeMax
       THEN /\ \E n \in {StStart(for_id, Len(calls) + 1)} : Apply(n)
            /\ for_id' = for_id + 1
       ELSE /\ pc' = "for"
            /\ ret' = <<>>
            /\ for_id' = for_id + 1
            /\ UNCHANGED <<stack, current, res, mut_arg, calls, log, aux_log, max_depth,
                           size, native, joined, other>>
    /\ UNCHANGED <<driver, prog, graph, arg0>>

----------------------------------------------------------------------------
(* benches/tarjan.rs `recursive`: the plain recursion over one State all   *)
(* calls share, for the graph g.                                           *)

\* benches/tarjan.rs 66-72: while w != v { w = s.stack.pop().unwrap(); ... }
RECURSIVE RecPopComponent(_, _, _)
RecPopComponent(v, s, component) ==
    LET w == s.stack[Len(s.stack)]
        s1 == [s EXCEPT !.stack = SubSeq(s.stack, 1, Len(s.stack) - 1),
                        !.on_stack = s.on_stack \ {w}]
        c1 == component \o <<w>>
    IN IF w = v THEN [s1 EXCEPT !.components = s1.components \o <<c1>>]
                ELSE RecPopComponent(v, s1, c1)

RECURSIVE RecDfs(_, _, _)
RECURSIVE RecDfsFor(_, _, _, _)
\* benches/tarjan.rs 55-62: for &w in &graph[v.id], from the i-th successor on
RecDfsFor(g, v, i, s) ==
    IF i > Len(g[v]) THEN s
    ELSE LET w == g[v][i] IN
         IF s.indices[w] = UsizeMax
         THEN LET s1 == RecDfs(g, w, s) IN
              RecDfsFor(g, v, i + 1,
                        [s1 EXCEPT !.lowlinks[v] = Min(s1.lowlinks[v], s1.lowlinks[w])])
         ELSE IF w \in s.on_stack
         THEN RecDfsFor(g, v, i + 1,
                        [s EXCEPT !.lowlinks[v] = Min(s.lowlinks[v], s.indices[w])])
         ELSE RecDfsFor(g, v, i + 1, s)

\* benches/tarjan.rs 48-75: fn dfs(v, graph, s: &mut State)
RecDfs(g, v, s) ==
    LET s1 == [s EXCEPT !.indices[v] = s.index,
                        !.lowlinks[v] = s.index,
                        !.index = s.index + 1,
                        !.stack = s.stack \o <<v>>,
                        !.on_stack = s.on_stack \cup {v}]
        s2 == RecDfsFor(g, v, 1, s1)
    IN IF s2.lowlinks[v] = s2.indices[v] THEN RecPopComponent(v, s2, <<>>) ELSE s2

\* benches/tarjan.rs 76-81: for id in 0..n, from id on
RECURSIVE RecFor(_, _, _)
RecFor(g, id, s) ==
    IF id = Cardinality(DOMAIN g) THEN s
    ELSE IF s.indices[id] = UsizeMax THEN RecFor(g, id + 1, RecDfs(g, id, s))
    ELSE RecFor(g, id + 1, s)

\* benches/tarjan.rs 33-84: recursive(graph)
TarjanRecursive(g) == RecFor(g, 0, InitState(Cardinality(DOMAIN g))).components

----------------------------------------------------------------------------
(* The graphs of benches/tarjan.rs `examples`; a graph maps node id to the *)
(* list of its successors.                                                 *)

\* examples::simple
GraphSimple ==
    [v \in 0..4 |-> CASE v = 0 -> <<1>>
                      [] v = 1 -> <<2, 3>>
                      [] v = 2 -> <<1, 4>>
                      [] v = 3 -> <<2>>
                      [] v = 4 -> <<>>]

\* examples::path
GraphPath(n) ==
    [v \in 0..(n - 1) |-> IF v < n - 1 THEN <<v + 1>> ELSE <<>>]

\* examples::path_rev
GraphPathRev(n) ==
    [v \in 0..(n - 1) |-> IF v = 0 THEN <<>> ELSE <<v - 1>>]

\* examples::complete
GraphComplete(n) ==
    [v \in 0..(n - 1) |-> [i \in 1..n |-> i - 1]]

\* A cycle 0 -> 1 -> ... -> n-1 -> 0: one component, which the nodes learn of
\* through the lowlinks their successors hand up.
GraphCycle(n) ==
    [v \in 0..(n - 1) |-> <<(v + 1) % n>>]

Graphs ==
    {GraphSimple}
        \cup {GraphPath(n) : n \in 1..MaxGraph}
        \cup {GraphPathRev(n) : n \in 1..MaxGraph}
        \cup {GraphComplete(n) : n \in 1..MaxGraph}
        \cup {GraphCycle(n) : n \in 1..MaxGraph}

\* The lists of distinct nodes of a graph of n nodes.
Successors(n) ==
    {l \in UNION {[1..k -> 0..(n - 1)] : k \in 0..n} :
        \A i, j \in 1..Len(l) : i < j => l[i] # l[j]}

\* Every graph of up to MaxNodes nodes, the empty graph among them.
SmallGraphs == UNION {[0..(n - 1) -> Successors(n)] : n \in 0..MaxNodes}

----------------------------------------------------------------------------
(* A caller of Generator::resume that is no driver: it holds one generator *)
(* and resumes it with a value of its choice, whatever the generator       *)
(* answered before, until resume panics.                                   *)

\* The values a caller of resume passes in.
ResumeInputs == 0..1

\* ghost: the log entry of a resume that answered out
Answered(out) ==
    Event(IF out.tag = "Complete" THEN "complete" ELSE "yielded", out.gen.id, 0, out.val)

\* One call of Pin::new(&mut gen).resume(r)
ResumeOnce(gen, r) ==
    LET out == Resume(gen, r) IN
    [stack |-> <<>>, current |-> out.gen, res |-> r,
     pc |-> IF out.tag = "Panicked" THEN "panicked" ELSE "loop",
     ret |-> <<>>, made |-> <<>>,
     ev |-> IF out.tag = "Panicked" THEN <<>> ELSE <<Answered(out)>>]

ResumeDirect ==
    /\ driver = "caller"
    /\ pc = "loop"
    /\ Len(log) < MaxResumes
    \* on the native stack: the closure the thread runs, and resume
    /\ \E r \in ResumeInputs :
            \E n \in {OnStack(DriveFrames - 2, ResumeOnce(current, r))} : Apply(n)
    /\ UNCHANGED <<driver, prog, graph, arg0, for_id>>

\* benches/calc.rs 118-169: eval_iterative_cps, one iteration of its outer
\* loop; stack is cont_chain, current is expr
EvalIterativeCps ==
    /\ driver = "eval_iterative_cps"
    /\ pc = "loop"
    /\ \E n \in {CpsStep(current, res, stack)} : Apply(n)
    /\ UNCHANGED <<driver, prog, graph, arg0, for_id>>

\* benches/tree.rs 84-100: sum_loop, one iteration of its loop; res is sum,
\* current is forest
SumLoop ==
    /\ driver = "sum_loop"
    /\ pc = "loop"
    /\ \E n \in {SumLoopStep(res, current, stack)} : Apply(n)
    /\ UNCHANGED <<driver, prog, graph, arg0, for_id>>

\* Faulty variant, to test the properties against: a popped first argument is taken
\* without n += 1
LoopStepNoIncrement(m, n, stk) ==
    IF m = 0 /\ stk = <<>>
    THEN [stack |-> stk, current |-> <<m, n>>, res |-> ResDefault, pc |-> "done",
          ret |-> <<n + 1>>, made |-> <<>>, ev |-> <<>>]
    ELSE LET next == IF m = 0 THEN [m |-> Last(stk), n |-> n, stack |-> Front(stk)]
                     ELSE IF n = 0 THEN [m |-> m - 1, n |-> 1, stack |-> stk]
                     ELSE [m |-> m, n |-> n - 1, stack |-> Append(stk, m - 1)]
         IN [stack |-> next.stack, current |-> <<next.m, next.n>>, res |-> ResDefault,
             pc |-> "loop", ret |-> <<>>, made |-> <<<<next.m, next.n>>>>, ev |-> <<>>]

\* bin/ackermann.rs 32-44: the test of the while loop of r#loop and one
\* iteration of it, or the n + 1 the function returns when the test fails
LoopStep(m, n, stk) ==
    IF m = 0 /\ stk = <<>>
    THEN [stack |-> stk, current |-> <<m, n>>, res |-> ResDefault, pc |-> "done",
          ret |-> <<n + 1>>, made |-> <<>>, ev |-> <<>>]
    ELSE LET next == IF m = 0 THEN [m |-> Last(stk), n |-> n + 1, stack |-> Front(stk)]
                     ELSE IF n = 0 THEN [m |-> m - 1, n |-> 1, stack |-> stk]
                     ELSE [m |-> m, n |-> n - 1, stack |-> Append(stk, m - 1)]
         IN [stack |-> next.stack, current |-> <<next.m, next.n>>, res |-> ResDefault,
             pc |-> "loop", ret |-> <<>>, made |-> <<<<next.m, next.n>>>>, ev |-> <<>>]

\* bin/ackermann.rs 30-45: r#loop; current is (m, n), stack the Vec
Loop ==
    /\ driver = "loop"
    /\ pc = "loop"
    /\ \E n \in {LoopStep(current[1], current[2], stack)} : Apply(n)
    /\ UNCHANGED <<driver, prog, graph, arg0, for_id>>

----------------------------------------------------------------------------
(* The naive recursions as the machine runs them (tests/triangular.rs      *)
(* `recursive`, tests/list.rs `len_recursive`): every call has an          *)
(* activation record on the native stack.  The body of each is the body   *)
(* of its generator with a call where the generator has a yield, so an     *)
(* activation record is the generator's record (argument, return point,    *)
(* locals), a call answers Yielded and a return Complete; `stack` holds    *)
(* the records of the callers, `current` the record of the running call.   *)

\* The call frames in use while the call on top of the callers stk runs: the
\* closure the thread runs, the callers, and the call itself.
RecursiveFrames(stk) == Len(stk) + 2

\* One step of the running call: up to its recursive call, which pushes an
\* activation record, or up to its return, which pops one.
Recursive ==
    /\ driver = "recursive"
    /\ pc = "loop"
    /\ \E n \in {RecurseStep(stack, current, res, Len(calls) + 1)} :
         \E m \in {OnStack(Max(RecursiveFrames(stack), RecursiveFrames(n.stack)), n)} :
            Apply(m)
    /\ UNCHANGED <<driver, prog, graph, arg0, for_id>>

----------------------------------------------------------------------------
(* with_stack_size *)

\* thread::Result<T>: Ok(val), or Err of the payload of a panic (a Box<dyn
\* Any>, left out here)
Ok(val) == [tag |-> "Ok", val |-> val]

Err == [tag |-> "Err", val |-> 0]

\* The closure the thread runs has returned: the drive has, or tarjan, which
\* makes a drive for every node not visited yet.
ClosureReturned == pc = (IF driver = "recurse_st" THEN "returned" ELSE "done")

\* lib.rs 129-133: .join() of the thread spawned with the stack `size`: Ok of
\* what the closure returned, Err if the closure panicked.  A thread that
\* overflowed its stack has taken the process down: nothing is joined.
Join ==
    /\ size > 0
    /\ joined = <<>>
    /\ ClosureReturned \/ pc = "panicked"
    /\ joined' = <<IF ClosureReturned THEN Ok(ret[1]) ELSE Err>>
    /\ UNCHANGED <<driver, prog, graph, arg0, stack, current, res, mut_arg, for_id, pc,
                   ret, calls, log, aux_log, max_depth, size, native, other>>

----------------------------------------------------------------------------
(* The drives of the model. *)

Programs(d) ==
    CASE d = "recurse" -> {"triangular", "binomial", "ackermann", "diverge", "list_len",
                           "kont", "eval_trampolined", "eval_trampolined_opt",
                           "eval_generator", "simple_gen", "actual_gen",
                           "depth_stack_safe", "depth_gen", "sum_stack_safe", "sum_gen"}
      [] d = "sum_loop" -> {"sum_loop"}
      [] d = "loop" -> {"ackermann_loop"}
      [] d = "eval_iterative_cps" -> {"eval_iterative_cps"}
      [] d = "recurse_tco" -> {"ackermann_tco", "kont_tco", "tail_sum"} \cup NormalPrograms
      [] d = "recurse_mut" -> {"dfs"} \cup MutPrograms
      [] d = "recurse_st" -> {"dfs"}
      [] d = "caller" -> {"kont", "simple_gen", "depth_gen"}
      [] d = "recursive" -> {"triangular", "list_len"}
      [] d = "recurse_twice" -> {"triangular", "binomial"}

\* The stacks the drive of d with p runs on: tests/triangular.rs 25-36 and
\* tests/list.rs 64-75 run stack_safe and recursive under with_stack_size.
\* The smallest stack holds the frames of a drive (a thread is given no less
\* than the platform's minimum, whatever `size` asks for).
StackSizes(d, p) ==
    CASE d \in {"recurse", "recursive"} /\ p \in {"triangular", "list_len"} ->
            {0} \cup DriveFrames..MaxStack
      [] d = "caller" -> {0, MaxStack}
      \* tarjan.rs 155-160, benches/tarjan.rs 216
      [] d = "recurse_st" -> {0, DriveFrames}
      [] OTHER -> {0}

\* benches/calc.rs 263-274: examples::simple
ExprSimple == ExprAdd(ExprNum(1), ExprMul(ExprNum(2), ExprNum(3)))

\* The expressions of k operators whose leaves are numbered from v on, the
\* left operand of an operator from v + 1, the right one from v + 2 (the
\* shapes of benches/calc.rs 297-323, tree_with and branch_with, and the
\* shapes between them).
RECURSIVE ExprsOf(_, _)
ExprsOf(k, v) ==
    IF k = 0 THEN {ExprNum(v)}
    ELSE UNION {UNION {{ExprAdd(lr[1], lr[2]), ExprMul(lr[1], lr[2])} :
                          lr \in ExprsOf(i, v + 1) \X ExprsOf(k - 1 - i, v + 2)} :
                   i \in 0..(k - 1)}

Exprs == {ExprSimple} \cup UNION {ExprsOf(k, 1) : k \in 0..MaxExpr}

CalcPrograms == {"eval_trampolined", "eval_trampolined_opt", "eval_iterative_cps"}

AckInputs ==
    {mn \in (0..MaxAckSum) \X (0..MaxAckSum) : mn[1] + mn[2] <= MaxAckSum}

\* examples/blog_expr.rs 239-242: the expression of main
ExpMain == Mul(Num(2), Add(<<Num(3)>>))

Exps ==
    {ExpMain, Num(2), Add(<<>>), Add(<<Num(1), Num(2)>>), Mul(Num(2), Num(3))}

\* Expressions of Add in Mul and Mul in Add, with lists of no, one and three
\* operands; the expressions the trampoline is run on
ExpNested == Add(<<Mul(Num(2), Num(3)), Add(<<>>), Num(4)>>)

ExpsDriven ==
    Exps \cup {ExpNested, Mul(Add(<<Num(1), Num(2), Num(3)>>), Mul(Num(2), Add(<<>>))),
               Add(<<Add(<<Num(5)>>)>>)}

ExpPrograms == {"eval_generator", "simple_gen", "actual_gen"}

\* benches/tree.rs 231-239: examples::simple
TreeSimple ==
    Tree(0, <<Tree(1, <<>>), Tree(2, <<Tree(3, <<>>)>>)>>)

\* benches/tree.rs 241-249: examples::path, the tree built from node k on
RECURSIVE TreePathFrom(_, _)
TreePathFrom(k, n) ==
    IF k = n - 1 THEN Tree(k, <<>>) ELSE Tree(k, <<TreePathFrom(k + 1, n)>>)

TreePath(n) == TreePathFrom(0, n)

Trees == {TreeSimple} \cup {TreePath(n) : n \in 1..MaxTree}

\* benches/tree.rs 251-259: examples::binary
RECURSIVE TreeBinary(_)
TreeBinary(n) ==
    IF n <= 1 THEN Tree(1, <<>>) ELSE Tree(1, <<TreeBinary(n - 1), TreeBinary(n - 1)>>)

\* The trees the traversals are run on
TreesDriven == Trees \cup {TreeBinary(n) : n \in 1..MaxTree}

DepthPrograms == {"depth_stack_safe", "depth_gen"}

SumPrograms == {"sum_stack_safe", "sum_gen", "sum_loop"}

Inputs(p) ==
    CASE Base(p) = "triangular" -> 0..MaxN
      [] Base(p) = "binomial" -> {nk \in (0..MaxBinN) \X (0..MaxBinN) : nk[2] <= nk[1]}
      [] Base(p) = "ackermann" -> AckInputs
      [] p = "ackermann_tco" -> AckInputs
      [] p = "diverge" -> {0}
      [] p = "tail_sum" -> {<<n, 0>> : n \in 0..MaxN}
      [] p = "dfs" -> {0}
      [] p = "list_len" -> {ListFrom(n) : n \in 0..MaxListLen}
      [] p \in {"kont", "kont_tco", "ackermann_loop"} -> AckInputs
      [] p = "simple_gen" -> Exps
      [] p = "depth_gen" -> Trees
      [] p \in CalcPrograms -> Exprs

\* The loops written by hand that use no generator and no driver:
\* eval_iterative_cps, sum_loop, r#loop
ExplicitLoops == {"eval_iterative_cps", "sum_loop", "loop"}

\* The arguments the drive of d with p is run on
DriveInputs(d, p) ==
    CASE d = "caller" -> Inputs(p)
      [] p \in ExpPrograms -> ExpsDriven
      [] p \in DepthPrograms \cup SumPrograms -> TreesDriven
      [] OTHER -> Inputs(p)

\* lib.rs 12-14, 59-61, 97-99: the state when the loop is entered; for
\* tarjan (driver "recurse_st"), tarjan.rs 71-81: the state when the for loop
\* is entered, no generator built yet
Init ==
    /\ driver \in {"recurse", "recurse_tco", "recurse_mut", "recurse_st", "caller",
                   "recursive", "recurse_twice", "eval_iterative_cps", "sum_loop",
                   "loop"}
    /\ prog \in Programs(driver)
    /\ graph \in CASE driver = "recurse_st" -> Graphs \cup SmallGraphs
                 [] driver = "recurse_mut" /\ prog = "dfs" -> Graphs
                 [] OTHER -> {<<>>}
    /\ arg0 \in DriveInputs(driver, prog)
    /\ stack = <<>>
    /\ current = CASE driver = "recurse_st" -> NoGen
                    [] driver \in {"eval_iterative_cps", "loop"} -> arg0
                    [] driver = "sum_loop" -> Iter(arg0.children)
                    [] OTHER -> NewGen(arg0, 1)
    /\ res = IF driver = "sum_loop" THEN arg0.value ELSE ResDefault
    /\ mut_arg = IF prog = "dfs" THEN InitState(Cardinality(DOMAIN graph)) ELSE None
    /\ for_id = 0
    /\ pc = IF driver = "recurse_st" THEN "for" ELSE "loop"
    /\ ret = <<>>
    /\ calls = IF driver = "recurse_st" THEN <<>> ELSE <<arg0>>
    /\ log = <<>>
    /\ aux_log = <<>>
    /\ max_depth = 0
    /\ size \in StackSizes(driver, prog)
    /\ native = 0
    /\ joined = <<>>
    /\ other = IF driver = "recurse_twice" THEN EnterLocals(arg0) ELSE NoLocals

Next ==
    \/ Recurse
    \/ RecurseTco
    \/ RecurseMut
    \/ RecurseSt
    \/ TarjanFor
    \/ ResumeDirect
    \/ Recursive
    \/ Join
    \/ RecurseFirst
    \/ RecurseSecond
    \/ EvalIterativeCps
    \/ SumLoop
    \/ Loop

Spec == Init /\ [][Next]_vars

\* The drives of recurse, called directly.
InitRecurse == Init /\ driver = "recurse" /\ size = 0

\* The loop has no exit but return and no wait: an iteration that can run, runs.
FairSpec == InitRecurse /\ [][Recurse]_vars /\ WF_vars(Recurse)

----------------------------------------------------------------------------
(* Properties. *)

\* What the live generator answers to the resume the next iteration makes.
LiveOut ==
    IF driver \in {"recurse_mut", "recurse_st"} THEN Resume(current, <<res, mut_arg>>)
                                                ELSE Resume(current, res)

IsPrefix(a, b) == Len(a) <= Len(b) /\ SubSeq(b, 1, Len(a)) = a

Args(visits) == [i \in 1..Len(visits) |-> visits[i].arg]

\* C1: a drive of recurse returns the value of the naive recursion; for the
\* triangular computation that value is n * (n + 1) / 2.
RecurseEquivalence ==
    (driver = "recurse" /\ pc = "done" /\ prog \in FinitePrograms) =>
        /\ ret = <<Naive(prog, arg0).val>>
        /\ prog = "triangular" => ret = <<(arg0 * (arg0 + 1)) \div 2>>

RecurseEquivalenceWitness ==
    /\ driver = "recurse" /\ pc = "done"
    /\ prog = "triangular" /\ arg0 >= 4 /\ ret = <<(arg0 * (arg0 + 1)) \div 2>>

\* C2: the arguments recurse builds computations from are, in order, the
\* calls of the naive recursion in depth-first, left-to-right order: at every
\* step a prefix of them, at the return all of them.
RecurseCallOrder ==
    (driver = "recurse" /\ prog \in FinitePrograms) =>
        LET naive == Args(Naive(prog, arg0).calls) IN
        /\ IsPrefix(calls, naive)
        /\ pc = "done" => calls = naive

RecurseCallOrderWitness ==
    /\ driver = "recurse" /\ pc = "done"
    /\ prog = "ackermann" /\ arg0 = <<2, 1>> /\ Len(calls) = 14

\* C3: when the live computation of recurse suspends with argument a, the
\* paused computation goes on top of the frame stack, whose other frames stay
\* as they are, f(a) becomes the live computation and the next resume input
\* is Res::default().
RecurseSuspendStep ==
    [][(driver = "recurse" /\ pc = "loop" /\ LiveOut.tag = "Yielded") =>
          /\ stack' = Append(stack, LiveOut.gen)
          /\ LiveOut.gen.st \notin {"Unresumed", "Returned"}
          /\ current' = NewGen(LiveOut.val, Len(calls) + 1)
          /\ calls' = Append(calls, LiveOut.val)
          /\ res' = ResDefault
          /\ pc' = "loop"]_vars

RecurseSuspendStepWitness ==
    /\ driver = "recurse" /\ pc = "loop"
    /\ Len(stack) >= 3
    /\ log # <<>> /\ Last(log).ev = "push" /\ Last(log).id = Last(stack).id
    /\ current.st = "Unresumed" /\ current.id = Last(log).peer
    /\ res = ResDefault

\* C4: when the live computation of recurse completes with r, a non-empty
\* frame stack loses its top frame, which becomes the live computation and is
\* resumed with r; with an empty frame stack the drive returns r.  The drive
\* returns in no other step.
RecurseCompletionStep ==
    [][/\ (driver = "recurse" /\ pc = "loop" /\ LiveOut.tag = "Complete") =>
            IF stack # <<>>
            THEN /\ stack' = Front(stack)
                 /\ current' = Last(stack)
                 /\ res' = LiveOut.val
                 /\ pc' = "loop"
            ELSE /\ pc' = "done"
                 /\ ret' = <<LiveOut.val>>
       /\ (driver = "recurse" /\ pc # "done" /\ pc' = "done") =>
            /\ LiveOut.tag = "Complete"
            /\ stack = <<>>
            /\ ret' = <<LiveOut.val>>]_vars

RecurseCompletionStepWitness ==
    /\ driver = "recurse" /\ pc = "done"
    /\ stack = <<>> /\ ret = <<5>>
    /\ \E j \in 1..Len(log) : log[j].ev = "pop" /\ <<log[j].val>> = ret

\* C5: every push of a frame is answered by exactly one pop of that frame,
\* and the popped frame is resumed with the result of the very computation it
\* asked for when it was pushed.
FrameLifecycle ==
    driver = "recurse" =>
        /\ \A j \in 1..Len(log) : log[j].ev = "pop" =>
              /\ \E i \in 1..(j - 1) :
                    /\ log[i].ev = "push"
                    /\ log[i].id = log[j].id
                    /\ log[i].peer = log[j].peer
                    /\ \A k \in (i + 1)..(j - 1) : log[k].id # log[j].id
              /\ prog \in FinitePrograms =>
                    log[j].val = Naive(prog, calls[log[j].peer]).val
        /\ \A i \in 1..Len(log) : \A j \in (i + 1)..Len(log) :
              (log[i].ev = "push" /\ log[j].ev = "push" /\ log[i].id = log[j].id) =>
                  \E k \in (i + 1)..(j - 1) : log[k].ev = "pop" /\ log[k].id = log[i].id
        /\ pc = "done" =>
              \A i \in 1..Len(log) : log[i].ev = "push" =>
                  \E j \in (i + 1)..Len(log) : log[j].ev = "pop" /\ log[j].id = log[i].id

FrameLifecycleWitness ==
    /\ driver = "recurse" /\ pc = "done" /\ prog = "binomial"
    /\ \E i, j, k, l \in 1..Len(log) :
          /\ i < j /\ j < k /\ k < l
          /\ log[i].id = 1 /\ log[j].id = 1 /\ log[k].id = 1 /\ log[l].id = 1
          /\ log[i].ev = "push" /\ log[j].ev = "pop"
          /\ log[k].ev = "push" /\ log[l].ev = "pop"
          /\ log[j].val > 1 /\ log[l].val > 1

\* C6: a drive of recurse returns if the call tree of the recursion is
\* finite, and never returns if it is infinite.
RecurseTermination ==
    /\ (driver = "recurse" /\ prog \in FinitePrograms) ~> (pc = "done")
    /\ [](driver = "recurse" /\ prog = "diverge" => pc # "done")

RecurseTerminationWitness ==
    /\ driver = "recurse" /\ pc = "done" /\ prog \in FinitePrograms
    /\ Len(calls) >= 14

\* C7: the length of the frame stack of recurse is the depth of the live
\* computation in the call tree of the naive recursion; for triangular(n)
\* the largest length of a drive is n.
RecurseDepth ==
    (driver = "recurse" /\ prog \in FinitePrograms) =>
        LET tree == Naive(prog, arg0).calls IN
        /\ current.id \in DOMAIN tree
        /\ Len(stack) = tree[current.id].depth
        /\ (pc = "done" /\ prog = "triangular") => max_depth = arg0

RecurseDepthWitness ==
    /\ driver = "recurse" /\ prog = "triangular" /\ arg0 >= 4
    /\ current.arg = 0 /\ Len(stack) = arg0 /\ max_depth = arg0

\* The frames pushed and not popped yet, oldest first, as the log tells.
RECURSIVE Outstanding(_)
Outstanding(l) ==
    IF l = <<>> THEN <<>>
    ELSE LET e == Last(l)
             before == Outstanding(Front(l))
         IN CASE e.ev = "push" -> Append(before, e.id)
              [] e.ev = "pop" -> SelectSeq(before, LAMBDA x : x # e.id)
              [] OTHER -> before

Ids(stk) == [i \in 1..Len(stk) |-> stk[i].id]

\* C8: in recurse, recurse_tco and recurse_mut a step leaves the frame stack
\* as it is, pushes the paused live computation on top, or pops the top frame
\* (which becomes the live computation); the frame popped is the one pushed
\* last among those not popped yet, and the frames under the top stay as and
\* where they are.
StackLifo ==
    [][driver \notin ExplicitLoops =>
       /\ \/ stack' = stack
          \/ pc = "loop" /\ stack' = Append(stack, LiveOut.gen)
          \/ stack # <<>> /\ stack' = Front(stack) /\ current' = Last(stack)
       /\ Ids(stack') = Outstanding(log')
       /\ \A j \in 1..Len(log') : log'[j].ev = "pop" =>
             LET before == Outstanding(SubSeq(log', 1, j - 1)) IN
             before # <<>> /\ Last(before) = log'[j].id]_vars

StackLifoWitness ==
    /\ driver = "recurse_mut" /\ pc = "loop"
    /\ Len(stack) >= 2
    /\ log # <<>> /\ Last(log).ev = "pop"
    /\ \E j \in 1..Len(log) : log[j].ev = "push" /\ log[j].id = current.id

\* C9: in recurse_tco a suspend with a tail marker leaves the frame stack as
\* it is, and a suspend with a normal marker pushes one frame, the suspending
\* computation.
TcoCallMarker ==
    [][(driver = "recurse_tco" /\ pc = "loop" /\ LiveOut.tag = "Yielded") =>
          IF LiveOut.val.is_tail
          THEN stack' = stack
          ELSE stack' = Append(stack, LiveOut.gen)]_vars

TcoCallMarkerWitness ==
    /\ driver = "recurse_tco" /\ prog = "ackermann_tco"
    /\ \E i, j \in 1..Len(log) :
          /\ i < j
          /\ log[i].ev = "push" /\ Len(Outstanding(SubSeq(log, 1, i))) = 2
          /\ log[j].ev = "tail"
          /\ Len(Outstanding(SubSeq(log, 1, j))) = Len(Outstanding(SubSeq(log, 1, j - 1)))

\* C10: while every suspend of a drive of recurse_tco has carried a tail
\* marker, the frame stack is empty; a purely tail-recursive formulation
\* keeps it empty for the whole drive, whatever the input.
TailCallBounded ==
    driver = "recurse_tco" =>
        /\ (\A j \in 1..Len(log) : log[j].ev = "tail") => (stack = <<>> /\ max_depth = 0)
        /\ prog = "tail_sum" =>
              /\ stack = <<>> /\ max_depth = 0
              /\ \A j \in 1..Len(log) : log[j].ev = "tail"

TailCallBoundedWitness ==
    /\ driver = "recurse_tco" /\ prog = "tail_sum" /\ pc = "done"
    /\ arg0[1] >= 4 /\ Len(calls) = arg0[1] + 1 /\ Len(log) = arg0[1]
    /\ ret = <<(arg0[1] * (arg0[1] + 1)) \div 2>>
    /\ max_depth = 0

\* C11: at every step of a drive of recurse_tco the frame stack is no longer
\* than the number of normal calls outstanding, that is the number of normal
\* calls the live computation is nested in.
TcoDepthBound ==
    (driver = "recurse_tco" /\ pc # "panicked") =>
        LET tree == NormalCalls(prog, arg0) IN
        /\ current.id \in DOMAIN tree
        /\ current.arg = tree[current.id].arg
        /\ Len(stack) <= tree[current.id].depth

TcoDepthBoundWitness ==
    /\ driver = "recurse_tco" /\ prog = "ackermann_tco" /\ pc = "loop"
    /\ Len(stack) = 2
    /\ Len(stack) = NormalCalls(prog, arg0)[current.id].depth
    /\ Naive(prog, arg0).calls[current.id].depth > Len(stack)
    /\ \E j \in 1..Len(log) : log[j].ev = "pop"

\* C12: driven by recurse_tco, a computation of recurse whose every suspend is
\* wrapped in Call::normal starts as under recurse and takes, from every state,
\* the step recurse takes with the unwrapped computation: same frame stack,
\* same live computation, same resume input, same return; so the two drives
\* go through the same states and return the same value.
TcoNormalIsRecurse ==
    [][(driver = "recurse_tco" /\ prog \in NormalPrograms) =>
          /\ (Len(calls) = 1 /\ log = <<>> /\ pc = "loop") =>
                (stack = <<>> /\ current = NewGen(arg0, 1) /\ res = ResDefault)
          /\ pc = "loop" =>
                LET n == RecurseMatch(stack, ResumeAs(Base(prog), current, res),
                                      Len(calls) + 1)
                IN /\ stack' = n.stack
                   /\ current' = n.current
                   /\ res' = n.res
                   /\ pc' = n.pc
                   /\ ret' = n.ret
                   /\ calls' = calls \o n.made
          /\ pc' = "done" => ret' = <<Naive(Base(prog), arg0).val>>]_vars

TcoNormalIsRecurseWitness ==
    /\ driver = "recurse_tco" /\ prog = "ackermann_normal" /\ pc = "done"
    /\ arg0 = <<2, 1>> /\ ret = <<5>>
    /\ Len(calls) = 14 /\ max_depth >= 3
    /\ \A j \in 1..Len(log) : log[j].ev # "tail"

\* C13: a drive of recurse_tco over yield_tco(m, n) never panics and returns
\* the value of the naive recursive Ackermann function.
TcoAckermannEquivalence ==
    (driver = "recurse_tco" /\ prog = "ackermann_tco") =>
        /\ pc # "panicked"
        /\ pc = "done" => ret = <<AckermannRecursive(arg0[1], arg0[2], 0).val>>

TcoAckermannEquivalenceWitness ==
    /\ driver = "recurse_tco" /\ prog = "ackermann_tco" /\ pc = "done"
    /\ arg0 = <<2, 1>> /\ ret = <<5>>
    /\ \E i, j, k \in 1..Len(log) :
          log[i].ev = "tail" /\ log[j].ev = "push" /\ log[k].ev = "pop"

\* The Ackermann function in closed form, for m <= 3.
AckermannClosed(m, n) ==
    CASE m = 0 -> n + 1
      [] m = 1 -> n + 2
      [] m = 2 -> 2 * n + 3
      [] m = 3 -> 2 ^ (n + 3) - 3

\* C14: a drive of recurse over the Ackermann generator, whose outer call
\* takes the result of the inner call for its argument, returns for (m, n)
\* what recursive(m, n) returns, which for m <= 3 is the closed form that
\* gives 8189 at (3, 10).
RecurseAckermannEquivalence ==
    (driver = "recurse" /\ prog = "ackermann") =>
        /\ pc # "panicked"
        /\ pc = "done" =>
              /\ ret = <<AckermannRecursive(arg0[1], arg0[2], 0).val>>
              /\ arg0[1] <= 3 => ret = <<AckermannClosed(arg0[1], arg0[2])>>
        /\ AckermannClosed(3, 10) = 8189

RecurseAckermannEquivalenceWitness ==
    /\ driver = "recurse" /\ prog = "ackermann" /\ pc = "done"
    /\ arg0[1] >= 2 /\ arg0[2] >= 1
    /\ ret = <<AckermannClosed(arg0[1], arg0[2])>>
    /\ \E i \in 1..Len(calls) : \E j \in 1..Len(log) :
          /\ i > 1 /\ calls[i][1] = arg0[1] - 1
          /\ log[j].ev = "pop" /\ log[j].id = 1 /\ calls[i][2] = log[j].val

RECURSIVE Factorial(_)
Factorial(n) == IF n = 0 THEN 1 ELSE n * Factorial(n - 1)

\* C15: a drive of recurse over the binomial generator, which makes two
\* sibling sub-calls, returns for (n, k) the binomial coefficient C(n, k) of
\* the recurrence C(n, 0) = C(n, n) = 1, C(n, k) = C(n-1, k-1) + C(n-1, k),
\* that is n! / (k! (n-k)!); binomial_stack_safe(10, 3) is 120.
RecurseBinomialEquivalence ==
    (driver = "recurse" /\ prog = "binomial") =>
        /\ pc # "panicked"
        /\ pc = "done" =>
              LET n == arg0[1]
                  k == arg0[2]
              IN /\ ret = <<BinomialRecursive(n, k, 0).val>>
                 /\ ret[1] * Factorial(k) * Factorial(n - k) = Factorial(n)
                 /\ LET naive == BinomialRecursive(10, 3, 0)
                        run == RecurseRun("binomial", <<10, 3>>, 2 * Len(naive.calls))
                    IN /\ naive.val = 120
                       /\ run.pc = "done"
                       /\ run.ret = <<120>>

RecurseBinomialEquivalenceWitness ==
    /\ driver = "recurse" /\ prog = "binomial" /\ pc = "done"
    /\ arg0 = <<4, 2>> /\ ret = <<6>>
    /\ \E i, j \in 1..Len(log) :
          /\ i < j
          /\ log[i].ev = "pop" /\ log[i].id = 1 /\ log[i].val = 3
          /\ log[j].ev = "pop" /\ log[j].id = 1 /\ log[j].val = 3

\* C16: for a list of n elements len_stack_safe returns n, which is what
\* len_recursive returns.
ListLenEquivalence ==
    (driver = "recurse" /\ prog = "list_len") =>
        /\ pc # "panicked"
        /\ pc = "done" =>
              /\ ret = <<Len(arg0)>>
              /\ ret = <<LenRecursive(arg0, 0).val>>

ListLenEquivalenceWitness ==
    /\ driver = "recurse" /\ prog = "list_len" /\ pc = "done"
    /\ arg0 = ListFrom(MaxListLen) /\ ret = <<MaxListLen>>
    /\ max_depth = MaxListLen /\ Last(calls) = <<>>

StateThreaded == {"recurse_mut", "recurse_st"}

\* C17: in a state-threaded drive the first resume is given the caller's
\* initial state and every later resume the state the resume before it handed
\* back, with its suspend or its completion.  So the computation built at a
\* suspend starts from the state its parent yielded (the parent's node is
\* marked in it), a popped parent goes on from the state its child returned
\* (the child's node is marked in it), and between two resumes the driver
\* holds the state handed back last.
StateThreading ==
    (driver \in StateThreaded /\ prog = "dfs") =>
        LET init == InitState(Cardinality(DOMAIN graph)) IN
        /\ \A k \in 1..Len(aux_log) :
              LET e == aux_log[k] IN
              /\ e.given = IF k = 1 THEN init ELSE aux_log[k - 1].back
              /\ (k > 1 /\ aux_log[k - 1].tag = "Yielded") =>
                    LET parent == calls[aux_log[k - 1].id] IN
                    /\ e.st = "Unresumed"
                    /\ e.given.indices[parent] # UsizeMax
                    /\ parent \in e.given.on_stack
              /\ (k > 1 /\ aux_log[k - 1].tag = "Complete" /\ e.st # "Unresumed") =>
                    LET child == calls[aux_log[k - 1].id] IN
                    /\ e.st = "Suspend0"
                    /\ e.given.indices[child] # UsizeMax
                    /\ e.given.lowlinks[child] # UsizeMax
        /\ pc = "loop" =>
              mut_arg = IF aux_log = <<>> THEN init ELSE Last(aux_log).back

StateThreadingWitness ==
    /\ driver = "recurse_mut" /\ graph = GraphSimple /\ pc = "done"
    /\ \E j, k \in 2..Len(aux_log) :
          /\ aux_log[j - 1].tag = "Yielded" /\ aux_log[j].st = "Unresumed"
          /\ aux_log[j].given.index >= 3
          /\ aux_log[k - 1].tag = "Complete" /\ aux_log[k].st = "Suspend0"
          /\ aux_log[k].given.components # <<>>

\* What a dfs generator paused at its yield consists of: its node (arg), the
\* place in its for loop (loc), its suspend point; no State.
IsDfsFrame(gen) ==
    /\ DOMAIN gen = {"id", "arg", "st", "loc"}
    /\ gen.arg \in DOMAIN graph
    /\ gen.st = "Suspend0"
    /\ gen.loc \in 1..Len(graph[gen.arg])

StateFields == {"index", "indices", "lowlinks", "components", "stack", "on_stack"}

\* C18: between the resumes of a state-threaded drive the auxiliary state is
\* in one place, the driver's slot mut_arg; no frame of the frame stack holds
\* a State, nor does the live computation, nor the result handed between
\* computations.  (Within a resume it is the live computation that has it:
\* the resume is given the slot's State and the slot takes the State the
\* resume hands back.)
AuxStateOwnership ==
    (driver \in StateThreaded /\ prog = "dfs") =>
        /\ DOMAIN mut_arg = StateFields
        /\ \A i \in 1..Len(stack) : IsDfsFrame(stack[i])
        /\ DOMAIN current = {"id", "arg", "st", "loc"}
        /\ pc = "loop" =>
              /\ current.st = "Unresumed" \/ IsDfsFrame(current)
              /\ aux_log # <<>> => mut_arg = Last(aux_log).back
        /\ res = <<>>
        /\ pc = "done" => ret = << <<>> >>

AuxStateOwnershipWitness ==
    /\ driver = "recurse_mut" /\ prog = "dfs" /\ pc = "loop"
    /\ Len(stack) >= 2 /\ current.st = "Suspend0"
    /\ mut_arg.components # <<>>
    /\ Len(aux_log) >= 4
    /\ Last(aux_log).tag = "Complete" /\ mut_arg = Last(aux_log).back

\* C19: tarjan, which threads its State through recurse_st, returns for
\* every graph the components the plain recursion over a shared State
\* returns, in the same order and with the same order of nodes in each; for
\* the graph 0->1, 1->{2,3}, 2->{1,4}, 3->2, 4->{} that is [[4],[3,2,1],[0]].
TarjanEquivalence ==
    driver = "recurse_st" =>
        /\ pc # "panicked"
        /\ pc = "returned" =>
              /\ ret = <<TarjanRecursive(graph)>>
              /\ graph = GraphSimple => ret = <<<< <<4>>, <<3, 2, 1>>, <<0>> >>>>

TarjanEquivalenceWitness ==
    /\ driver = "recurse_st" /\ pc = "returned"
    /\ graph = GraphSimple
    /\ ret = <<<< <<4>>, <<3, 2, 1>>, <<0>> >>>>
    /\ max_depth = 3 /\ Len(calls) = 5

Reverse(l) == [i \in 1..Len(l) |-> l[Len(l) + 1 - i]]

\* C20: for the path 0 -> 1 -> ... -> n-1 tarjan returns n components of one
\* node each, the nodes in descending order: reversed, the list is
\* [[0], [1], ..., [n-1]].  One dfs visits the whole path, n - 1 frames deep.
TarjanPath ==
    \A n \in 1..MaxGraph :
        (driver = "recurse_st" /\ graph = GraphPath(n) /\ pc = "returned") =>
            /\ ret = <<[i \in 1..n |-> <<n - i>>]>>
            /\ Reverse(ret[1]) = [i \in 1..n |-> <<i - 1>>]
            /\ Len(calls) = n
            /\ max_depth = n - 1

TarjanPathWitness ==
    /\ driver = "recurse_st" /\ pc = "returned"
    /\ graph = GraphPath(MaxGraph)
    /\ Len(ret[1]) = MaxGraph
    /\ ret[1][1] = <<MaxGraph - 1>> /\ ret[1][MaxGraph] = <<0>>
    /\ Len(log) = 2 * (MaxGraph - 1)

\* C21: every generator, resumed after it completed, panics: a caller that
\* resumes a generator whose last answer was Complete gets no answer, the
\* resume aborts.
ResumeAfterCompleteAborts ==
    [][(driver = "caller" /\ pc = "loop" /\ log # <<>> /\ Last(log).ev = "complete")
            => pc' = "panicked"]_vars

\* C22: with_stack_size returns Ok(v) if the closure the thread runs returns
\* v, and Err, with the caller running on, if the thread ends in any other
\* way, a stack overflow included: once the thread has ended, with_stack_size
\* returns or has returned, and what it returned is that.
WithStackSizeOutcome ==
    size > 0 =>
        /\ ClosureReturned =>
                IF joined = <<>> THEN ENABLED Join ELSE joined = <<Ok(ret[1])>>
        /\ pc \in {"panicked", "overflow"} =>
                IF joined = <<>> THEN ENABLED Join ELSE joined = <<Err>>

\* The call frames the naive recursion p of a needs: triangular and
\* len_recursive nest every call in the one before.
NaiveFrames(p, a) == Len(Naive(p, a).calls) + 1

\* C23: the naive recursion run by with_stack_size on a stack too small for
\* its depth ends with with_stack_size returning Err to its caller: when
\* nothing more can happen, Err has been returned.
NaiveOverflowReported ==
    (/\ driver = "recursive" /\ size > 0 /\ NaiveFrames(prog, arg0) > size
     /\ ~ENABLED Next)
        => joined = <<Err>>

\* The drivers.
Drivers == {"recurse", "recurse_tco", "recurse_mut", "recurse_st"}

\* The value the closure the thread runs returns, by the naive recursion.
Expected ==
    IF prog = "dfs" THEN TarjanRecursive(graph) ELSE Naive(prog, arg0).val

LocalsOf(d) ==
    [stack |-> d.stack, current |-> d.current, res |-> d.res, pc |-> d.pc,
     ret |-> d.ret]

FirstLocals ==
    [stack |-> stack, current |-> current, res |-> res, pc |-> pc, ret |-> ret]

Completed == {log[j].peer : j \in {i \in 1..Len(log) : log[i].ev = "pop"}}

\* C26: while recurse (or recurse_mut) drives, the computations built and
\* not completed yet are the live one and the frames of the frame stack, each
\* once: the live computation is no frame, no computation is two frames, no
\* frame has completed, and every frame is paused at a suspend point.
SingleLive ==
    (driver \in {"recurse", "recurse_mut"} /\ pc = "loop") =>
        LET frames == {stack[i].id : i \in 1..Len(stack)} IN
        /\ current.id \notin frames
        /\ Cardinality(frames) = Len(stack)
        /\ current.id \notin Completed
        /\ frames \cap Completed = {}
        /\ frames \cup {current.id} \cup Completed = 1..Len(calls)
        /\ \A i \in 1..Len(stack) : stack[i].st \notin {"Unresumed", "Returned"}

SingleLiveWitness ==
    /\ driver = "recurse" /\ prog = "binomial" /\ pc = "loop"
    /\ Len(stack) >= 2
    /\ Cardinality(Completed) >= 3
    /\ current.st = "Suspend1"

\* The values tried in the place of Res::default().
Defaults == {0, 1, 7}

\* The outcome n of an iteration, had Res::default() been d: an iteration
\* that built a generator (lib.rs 20-21) leaves d in res.
WithDefault(n, d) == IF n.made # <<>> THEN [n EXCEPT !.res = d] ELSE n

\* lib.rs 16-31: up to k iterations of the loop with d for Res::default(),
\* from the iteration whose locals are c.n on (as RecurseLoop).
RECURSIVE DefaultLoop(_, _, _, _)
DefaultLoop(p, c, k, d) ==
    IF k = 0 \/ c.n.pc # "loop" THEN c
    ELSE IF k = 1
    THEN LET n == WithDefault(RecurseMatch(c.n.stack,
                                           ResumeAs(p, c.n.current, c.n.res), c.nid), d)
         IN [n |-> n, nid |-> c.nid + Len(n.made)]
    ELSE DefaultLoop(p, DefaultLoop(p, c, k \div 2, d), k - (k \div 2), d)

\* lib.rs 11-32: recurse(f)(arg) with d for Res::default()
DefaultRun(p, arg, k, d) ==
    DefaultLoop(p,
                [n |-> [stack |-> <<>>, current |-> NewGen(arg, 1), res |-> d,
                        pc |-> "loop", ret |-> <<>>],
                 nid |-> 2],
                k, d).n

\* C27: recurse passes Res::default() to a generator it has just built and
\* to no other: the live computation is fresh exactly when the resume input
\* is the placeholder, a popped frame is resumed with the result of the
\* computation that completed; a fresh generator answers the same whatever
\* it is passed, and the drive returns the same value whatever value
\* Res::default() has.
DefaultNeverRead ==
    (driver = "recurse" /\ prog \in FinitePrograms) =>
        /\ pc = "loop" =>
              IF log = <<>> \/ Last(log).ev = "push"
              THEN /\ current.st = "Unresumed"
                   /\ res = ResDefault
                   /\ \A d \in Defaults : Resume(current, d) = Resume(current, res)
              ELSE /\ current.st # "Unresumed"
                   /\ Last(log).ev = "pop" /\ Last(log).id = current.id
                   /\ res = Last(log).val
                   /\ res = Naive(prog, calls[Last(log).peer]).val
        /\ pc = "done" =>
              \A d \in Defaults :
                  LET run == DefaultRun(prog, arg0, 2 * Len(calls), d) IN
                  run.pc = "done" /\ run.ret = ret

DefaultNeverReadWitness ==
    /\ driver = "recurse" /\ prog = "ackermann" /\ arg0 = <<2, 1>>
    /\ pc = "done" /\ ret = <<5>>
    /\ DefaultRun(prog, arg0, 2 * Len(calls), 7).ret = <<5>>
    /\ \E j \in 1..Len(log) : log[j].ev = "pop" /\ log[j].val # ResDefault

\* C28: driven by recurse_mut, a computation of recurse that hands the
\* auxiliary state back as it got it starts as under recurse and takes, from
\* every state, the step recurse takes: same push or pop, same frame stack,
\* same computation built, same result routed, same return; every suspend
\* pushes the paused computation; the auxiliary state stays what it was.
MutIsRecurse ==
    [][(driver = "recurse_mut" /\ prog \in MutPrograms) =>
          /\ (Len(calls) = 1 /\ log = <<>> /\ pc = "loop") =>
                (stack = <<>> /\ current = NewGen(arg0, 1) /\ res = ResDefault)
          /\ pc = "loop" =>
                LET n == RecurseMatch(stack, ResumeAs(Base(prog), current, res),
                                      Len(calls) + 1)
                IN /\ stack' = n.stack
                   /\ current' = n.current
                   /\ res' = n.res
                   /\ pc' = n.pc
                   /\ ret' = n.ret
                   /\ calls' = calls \o n.made
                   /\ log' = log \o n.ev
                   /\ mut_arg' = mut_arg
          /\ (pc = "loop" /\ LiveOut.tag = "Yielded") =>
                (Len(stack') = Len(stack) + 1 /\ Last(stack') = LiveOut.gen)
          /\ pc' = "done" => ret' = <<Naive(Base(prog), arg0).val>>]_vars

MutIsRecurseWitness ==
    /\ driver = "recurse_mut" /\ prog = "ackermann_mut" /\ pc = "done"
    /\ arg0 = <<2, 1>> /\ ret = <<5>>
    /\ max_depth >= 3 /\ Len(calls) = 14
    /\ mut_arg = None

\* The computations dropped at a tail call, as the log tells.
Dropped == {l.id : l \in {log[j] : j \in {i \in 1..Len(log) : log[i].ev = "tail"}}}

\* The frame the result of computation g is for, as the log l tells: a
\* computation built at a normal call returns to its caller, a computation
\* built at a tail call returns to where its caller would have returned; 0:
\* the result is the answer of the drive.
RECURSIVE Receiver(_, _)
Receiver(l, g) ==
    LET made == {j \in 1..Len(l) : l[j].ev \in {"push", "tail"} /\ l[j].peer = g} IN
    IF made = {} THEN 0
    ELSE LET j == CHOOSE j \in made : TRUE IN
         IF l[j].ev = "push" THEN l[j].id ELSE Receiver(l, l[j].id)

\* C29: in recurse_tco a computation that suspends with a tail marker is
\* dropped (it is neither the live computation nor a frame ever after), and
\* the result of a computation goes where the result of the computation that
\* tail-called it would have gone: the frame that receives the result of the
\* live computation is the top of the frame stack, a frame pushed at a normal
\* call, and with an empty frame stack the result is the answer of the drive.
TailRouting ==
    /\ [](driver = "recurse_tco" =>
            /\ pc = "loop" =>
                  /\ current.id \notin Dropped
                  /\ \A i \in 1..Len(stack) : stack[i].id \notin Dropped
                  /\ Receiver(log, current.id) =
                        (IF stack = <<>> THEN 0 ELSE Last(stack).id)
            /\ \A j \in 1..Len(log) :
                  log[j].ev = "pop" =>
                      /\ log[j].id = Receiver(log, log[j].peer)
                      /\ \A i \in 1..(j - 1) : ~(log[i].ev = "tail" /\ log[i].id = log[j].id)
            /\ pc = "done" => Receiver(log, current.id) = 0)
    /\ [][(driver = "recurse_tco" /\ pc = "loop") =>
            /\ (LiveOut.tag = "Yielded" /\ LiveOut.val.is_tail) =>
                  /\ stack' = stack
                  /\ current.id \in Dropped'
                  /\ current'.id # current.id
                  /\ Receiver(log', current'.id) = Receiver(log, current.id)
            /\ LiveOut.tag = "Complete" =>
                  IF stack = <<>>
                  THEN pc' = "done" /\ ret' = <<LiveOut.val>>
                  ELSE /\ current' = Last(stack) /\ res' = LiveOut.val
                       /\ Last(stack).id = Receiver(log, current.id)]_vars

TailRoutingWitness ==
    /\ driver = "recurse_tco" /\ prog = "kont_tco" /\ pc = "loop"
    /\ log # <<>> /\ Last(log).ev = "pop"
    /\ \E j \in 1..Len(log) :
          /\ log[j].ev = "tail" /\ log[j].peer = Last(log).peer
          /\ log[j].id # Last(log).id
          /\ \E i \in 1..Len(log) : log[i].ev = "tail" /\ log[i].peer = log[j].id
    /\ current.id = Last(log).id /\ current.st = "C"

\* C30: recurse, recurse_tco and recurse_mut resume no computation that has
\* completed: the live computation has not completed before, nor has any
\* frame, every frame is parked where it suspended, a computation that
\* completes is replaced in the same step (by the popped frame) or the drive
\* returns, and no resume of a drive panics.
NoResumeAfterComplete ==
    /\ [](driver \in {"recurse", "recurse_tco", "recurse_mut"} =>
            /\ pc # "panicked"
            /\ pc = "loop" =>
                  /\ current.id \notin Completed
                  /\ current.st # "Returned"
                  /\ LiveOut.tag # "Panicked"
                  /\ \A i \in 1..Len(stack) :
                        /\ stack[i].id \notin Completed
                        /\ stack[i].st \notin {"Unresumed", "Returned"}
                        /\ \E j \in 1..Len(log) :
                              /\ log[j].ev = "push" /\ log[j].id = stack[i].id
                              /\ \A k \in (j + 1)..Len(log) : log[k].id # stack[i].id)
    /\ [][(/\ driver \in {"recurse", "recurse_tco", "recurse_mut"}
            /\ pc = "loop" /\ LiveOut.tag = "Complete") =>
              IF stack = <<>>
              THEN pc' = "done"
              ELSE /\ current' = Last(stack) /\ current'.id # current.id
                   /\ current.id \in Completed'
                   /\ \A i \in 1..Len(stack') : stack'[i].id # current.id]_vars

NoResumeAfterCompleteWitness ==
    /\ driver = "recurse" /\ prog = "binomial" /\ pc = "done"
    /\ current.st = "Returned" /\ stack = <<>>
    /\ Cardinality(Completed) >= 10
    /\ Len(calls) = Cardinality(Completed) + 1

\* C31: when a state-threaded drive has returned, the caller's auxiliary
\* state is the state the root computation handed back with its completion.
\* In tarjan the drives work on one State: a drive starts from the State the
\* drive before left, no step takes a component away or unmarks a node, and
\* tarjan returns the components of all its drives.
StateAfterDrive ==
    /\ []((driver \in StateThreaded /\ prog = "dfs") =>
            /\ pc = "done" =>
                  /\ aux_log # <<>>
                  /\ Last(aux_log).tag = "Complete"
                  /\ Last(aux_log).id = current.id
                  /\ stack = <<>>
                  /\ mut_arg = Last(aux_log).back
            /\ pc = "returned" => ret = <<mut_arg.components>>)
    /\ [][(driver \in StateThreaded /\ prog = "dfs") =>
            /\ IsPrefix(mut_arg.components, mut_arg'.components)
            /\ \A v \in DOMAIN graph :
                  mut_arg.indices[v] # UsizeMax =>
                      mut_arg'.indices[v] = mut_arg.indices[v]
            /\ pc \in {"for", "done"} => mut_arg' = mut_arg]_vars

StateAfterDriveWitness ==
    /\ driver = "recurse_st" /\ graph = GraphPathRev(3) /\ pc = "returned"
    /\ max_depth = 0
    /\ ret = << << <<0>>, <<1>>, <<2>> >> >>
    /\ Len(aux_log) = 3
    /\ aux_log[2].given.components = << <<0>> >>
    /\ aux_log[3].given.components = << <<0>>, <<1>> >>

\* C32: over a whole tarjan run a dfs computation is constructed at most once
\* per node, whether by a neighbour loop at any depth or by the for loop of
\* tarjan: a node is marked by the first resume of its computation, and the
\* marking is in the state every later examination of the node sees.  At the
\* return of tarjan every node has been constructed exactly once.
DfsOncePerNode ==
    (driver \in StateThreaded /\ prog = "dfs") =>
        /\ \A i, j \in 1..Len(calls) : calls[i] = calls[j] => i = j
        /\ \A i \in 1..Len(calls) : calls[i] \in DOMAIN graph
        /\ \A v \in DOMAIN graph :
              mut_arg.indices[v] # UsizeMax => \E i \in 1..Len(calls) : calls[i] = v
        /\ \A i \in 1..Len(calls) :
              (mut_arg.indices[calls[i]] = UsizeMax) =>
                  /\ i = Len(calls)
                  /\ pc = "loop" /\ current.id = i /\ current.st = "Unresumed"
        /\ pc = "returned" => Len(calls) = Cardinality(DOMAIN graph)

DfsOncePerNodeWitness ==
    /\ driver = "recurse_st" /\ graph = GraphComplete(3) /\ pc = "returned"
    /\ calls = <<0, 1, 2>>
    /\ max_depth = 2
    /\ \E k \in 1..Len(aux_log) :
          /\ aux_log[k].id = 1 /\ aux_log[k].st = "Suspend0"
          /\ aux_log[k].given.indices[2] # UsizeMax

\* bin/ackermann.rs 47-75 and 81-86, 126-131: the suspension point of the
\* generator the compiler makes of the closure of r#yield (yield_tco) that
\* the state of the hand-written Kont stands for; a tail call of
\* manual_tco::Kont leaves its state, and the driver drops the generator
AsYield(gen) ==
    [gen EXCEPT !.st = CASE @ = "B" -> "Suspend0"
                         [] @ = "C" -> "Suspend1"
                         [] @ = "D" -> "Suspend2"
                         [] OTHER -> @]

AsYieldStack(stk) == [i \in 1..Len(stk) |-> AsYield(stk[i])]

\* C33: driven by recurse, manual::Kont takes the steps the generator of
\* r#yield takes: from corresponding locals the same argument is suspended
\* with, the same push or pop is made, the same result is routed, the same
\* value returned; so the drives make the same sequence of suspended
\* arguments, which is that of the recursion, and return A(m, n).  Driven by
\* recurse_tco, manual_tco::Kont likewise takes the steps of the generator of
\* yield_tco, each call with the same marker.
KontRefinesYield ==
    /\ []((driver = "recurse" /\ prog = "kont" /\ pc = "done") =>
            /\ ret = <<Naive("ackermann", arg0).val>>
            /\ calls = Args(Naive("ackermann", arg0).calls)
            /\ ret = RecurseRun("ackermann", arg0, Len(log) + 1).ret)
    /\ []((driver = "recurse_tco" /\ prog = "kont_tco" /\ pc = "done") =>
            /\ ret = <<Naive("ackermann_tco", arg0).val>>
            /\ calls = Args(NormalCalls("ackermann_tco", arg0)))
    /\ []((prog \in {"kont", "kont_tco"} /\ driver # "caller") => pc # "panicked")
    /\ [][(driver = "recurse" /\ prog = "kont" /\ pc = "loop") =>
            LET n == RecurseMatch(AsYieldStack(stack),
                                  ResumeAckermann(AsYield(current), res),
                                  Len(calls) + 1)
            IN /\ AsYieldStack(stack') = n.stack
               /\ pc' = n.pc
               /\ pc' = "loop" => AsYield(current') = n.current
               /\ res' = n.res
               /\ ret' = n.ret
               /\ calls' = calls \o n.made
               /\ log' = log \o n.ev]_vars
    /\ [][(driver = "recurse_tco" /\ prog = "kont_tco" /\ pc = "loop") =>
            LET n == TcoMatch(AsYieldStack(stack),
                              ResumeAckermannTco(AsYield(current), res),
                              Len(calls) + 1)
            IN /\ AsYieldStack(stack') = n.stack
               /\ pc' = n.pc
               /\ pc' = "loop" => AsYield(current') = n.current
               /\ res' = n.res
               /\ ret' = n.ret
               /\ calls' = calls \o n.made
               /\ log' = log \o n.ev]_vars

KontRefinesYieldWitness ==
    /\ driver = "recurse" /\ prog = "kont" /\ pc = "done"
    /\ arg0 = <<2, 1>> /\ ret = <<5>>
    /\ max_depth >= 2
    /\ \E k \in 1..Len(log) : log[k].ev = "pop" /\ log[k].val = 3

\* benches/calc.rs 29-35: the expressions eval_recursive is called on, in
\* the order of the calls
RECURSIVE PreOrder(_)
PreOrder(expr) ==
    IF expr[1] = "Num" THEN <<expr>>
    ELSE <<expr>> \o PreOrder(expr[2]) \o PreOrder(expr[3])

Trampolined == {"eval_trampolined", "eval_trampolined_opt"}

\* C34: eval_trampolined, eval_trampolined_opt and eval_iterative_cps return
\* the value eval_recursive returns, and none panics.  The trampolined forms
\* build the computations of the subexpressions in the order eval_recursive
\* calls itself; when one asks for its right operand, the computations made
\* since it was built are exactly those of its left operand, none of them is
\* still suspended, and the value it is resumed with is the left operand's.
EvaluatorsAgree ==
    /\ [](prog \in CalcPrograms =>
            /\ pc # "panicked"
            /\ pc = "done" =>
                  /\ ret = <<EvalRecursive(arg0)>>
                  /\ calls = PreOrder(arg0)
            /\ \A i \in 1..Len(calls) : i <= Len(PreOrder(arg0)) /\ calls[i] = PreOrder(arg0)[i])
    /\ [][(driver = "recurse" /\ prog \in Trampolined /\ pc = "loop"
              /\ current.st \in {"Suspend0", "Add1", "Mul1"}) =>
            /\ res = EvalRecursive(current.arg[2])
            /\ SubSeq(calls, current.id, Len(calls)) =
                   <<current.arg>> \o PreOrder(current.arg[2])
            /\ \A i \in 1..Len(stack) : stack[i].id < current.id
            /\ calls' = Append(calls, current.arg[3])
            /\ Len(stack') = Len(stack) + 1 /\ Last(stack').id = current.id
            /\ current'.arg = current.arg[3] /\ current'.st = "Unresumed"]_vars

EvaluatorsAgreeWitness ==
    /\ driver = "recurse" /\ prog = "eval_trampolined_opt" /\ pc = "done"
    /\ arg0 = ExprSimple /\ ret = <<7>>
    /\ max_depth = 2
    /\ calls = <<ExprSimple, ExprNum(1), ExprMul(ExprNum(2), ExprNum(3)), ExprNum(2),
                 ExprNum(3)>>

\* examples/blog_expr.rs 20-37: the expressions eval_recursive is called
\* on, in the order of the calls
RECURSIVE ExpPreOrder(_)
RECURSIVE ExpPreOrderAll(_, _)
ExpPreOrderAll(exps, i) ==
    IF i > Len(exps) THEN <<>> ELSE ExpPreOrder(exps[i]) \o ExpPreOrderAll(exps, i + 1)

ExpPreOrder(exp) == <<exp>> \o ExpPreOrderAll(exp.exps, 1)

\* ghost: the number of suspends of the computation id so far
Suspends(id) == Cardinality({k \in 1..Len(log) : log[k].ev = "push" /\ log[k].id = id})

\* C35: driven by the trampoline, SimpleGen, ActualGen and the generator of
\* eval_generator return the value of eval_recursive and none panics.  The
\* computation of an expression suspends once per operand, in list order:
\* resumed after j suspends, it suspends with operand j + 1 if there is one,
\* and completes with the value of the expression if there is none.  So an
\* Add of no operands completes with 0 on its first resume, and a Mul
\* suspends with its first operand, then with its second, then completes
\* with the product.
SumMachinesAgree ==
    /\ []((driver = "recurse" /\ prog \in ExpPrograms) =>
            /\ pc # "panicked"
            /\ pc = "done" =>
                  /\ ret = <<ExpEvalRecursive(arg0)>>
                  /\ calls = ExpPreOrder(arg0))
    /\ [][(driver = "recurse" /\ prog \in ExpPrograms /\ pc = "loop") =>
            LET exp == current.arg
                j == Suspends(current.id)
            IN IF j < Len(exp.exps)
               THEN /\ calls' = Append(calls, exp.exps[j + 1])
                    /\ log' = Append(log, Event("push", current.id, Len(calls) + 1, 0))
                    /\ Len(stack') = Len(stack) + 1
                    /\ Last(stack').id = current.id
                    /\ current'.arg = exp.exps[j + 1] /\ current'.st = "Unresumed"
                    /\ pc' = "loop"
               ELSE /\ calls' = calls
                    /\ exp.tag = "Add" => ExpEvalRecursive(exp) = ExpSum(exp.exps, 1)
                    /\ IF stack = <<>>
                       THEN pc' = "done" /\ ret' = <<ExpEvalRecursive(exp)>>
                       ELSE /\ pc' = "loop"
                            /\ res' = ExpEvalRecursive(exp)
                            /\ stack' = Front(stack)
                            /\ current'.id = Last(stack).id]_vars

SumMachinesAgreeWitness ==
    /\ driver = "recurse" /\ prog = "actual_gen" /\ pc = "done"
    /\ arg0 = ExpNested /\ ret = <<10>>
    /\ Len(calls) = 6
    /\ \E k \in 1..Len(log) : log[k].ev = "pop" /\ log[k].val = 0 /\ log[k].peer = 5

\* ghost: the nodes above the node of the i-th computation built, from the
\* log of pushes: the computation that asked for it, and so on up to the root
RECURSIVE Ancestors(_)
Ancestors(i) ==
    IF \E k \in 1..Len(log) : log[k].ev = "push" /\ log[k].peer = i
    THEN LET k == CHOOSE k \in 1..Len(log) : log[k].ev = "push" /\ log[k].peer = i
         IN Append(Ancestors(log[k].id), log[k].id)
    ELSE <<>>

\* the sum of the values of the nodes from the i-th on
RECURSIVE SumValues(_, _)
SumValues(nodes, i) ==
    IF i > Len(nodes) THEN 0 ELSE nodes[i].value + SumValues(nodes, i + 1)

\* C36: for every tree, depth_stack_safe and depth_manual return what
\* depth_recursive returns, 1 for a leaf and 1 + the greatest depth of a
\* child otherwise; sum_stack_safe, sum_manual and sum_loop return what
\* sum_recursive returns, the sum of the values of all nodes; none panics.
\* For the path of n nodes the depth is n and the sum n * (n - 1) / 2.
TraversalsAgree ==
    /\ (driver = "recurse" /\ prog \in DepthPrograms) =>
          /\ pc # "panicked"
          /\ pc = "done" =>
                /\ ret = <<DepthRecursive(arg0)>>
                /\ arg0.children = <<>> => ret = <<1>>
                /\ \E i \in 1..Len(calls) : ret[1] = Len(Ancestors(i)) + 1
                /\ \A i \in 1..Len(calls) : ret[1] >= Len(Ancestors(i)) + 1
                /\ \A n \in 1..MaxTree : arg0 = TreePath(n) => ret = <<n>>
    /\ prog \in SumPrograms =>
          /\ pc # "panicked"
          /\ pc = "done" =>
                /\ ret = <<SumRecursive(arg0)>>
                /\ ret = <<SumValues(calls, 1)>>
                /\ \A n \in 1..MaxTree :
                      arg0 = TreePath(n) => ret = <<(n * (n - 1)) \div 2>>

TraversalsAgreeWitness ==
    /\ driver = "recurse" /\ prog = "sum_gen" /\ pc = "done"
    /\ arg0 = TreePath(MaxTree)
    /\ ret = <<(MaxTree * (MaxTree - 1)) \div 2>>
    /\ max_depth = MaxTree - 1

\* bin/ackermann.rs 20-28: `recursive`, as the calls it makes in order,
\* each with its arguments and the first arguments of the outer calls
\* recursive(m - 1, _) that wait for the value of an inner call
\* recursive(m, n - 1) while it runs, the innermost last
RECURSIVE AckermannPending(_, _, _)
AckermannPending(m, n, pending) ==
    LET here == [arg |-> <<m, n>>, pending |-> pending] IN
    IF m = 0 THEN [val |-> n + 1, calls |-> <<here>>]
    ELSE IF n = 0
    THEN LET sub == AckermannPending(m - 1, 1, pending) IN
         [val |-> sub.val, calls |-> <<here>> \o sub.calls]
    ELSE LET inner == AckermannPending(m, n - 1, Append(pending, m - 1))
             outer == AckermannPending(m - 1, inner.val, pending)
         IN [val |-> outer.val, calls |-> <<here>> \o inner.calls \o outer.calls]

\* C37: the loop with an explicit stack returns what `recursive` returns.
\* At the head of every iteration (m, n) are the arguments of a call of the
\* recursion, the calls taken in their order, and the stack holds the first
\* arguments m - 1 of the outer calls pending at that call, the innermost on
\* top; an iteration pushes or pops at the top only, and the stack is empty
\* when the loop is left.
LoopIsRecursive ==
    /\ [](driver = "loop" =>
            LET rec == AckermannPending(arg0[1], arg0[2], <<>>)
                k == Len(calls)
            IN /\ k <= Len(rec.calls)
               /\ current = rec.calls[k].arg
               /\ stack = rec.calls[k].pending
               /\ calls = SubSeq(Args(rec.calls), 1, k)
               /\ pc = "done" =>
                     /\ ret = <<rec.val>>
                     /\ ret = <<AckermannRecursive(arg0[1], arg0[2], 0).val>>
                     /\ stack = <<>>
                     /\ k = Len(rec.calls))
    /\ [][driver = "loop" =>
            \/ stack' = stack
            \/ stack' = Append(stack, current[1] - 1) /\ current' = <<current[1], current[2] - 1>>
            \/ stack = Append(stack', current'[1]) /\ current[1] = 0]_vars

LoopIsRecursiveWitness ==
    /\ driver = "loop" /\ pc = "done"
    /\ arg0 = <<2, 1>> /\ ret = <<5>>
    /\ max_depth >= 2
    /\ stack = <<>>

====
